---- MODULE Spec2Model ----
(***************************************************************************)
(* A model of three parts of strongSwan: the OpenSSL-backed PKCS#7/CMS     *)
(* container (openssl_pkcs7.c) with its lazy per-signer signature          *)
(* enumerator, signer resolver (verify_signature) and digest binder        *)
(* (verify_digest); the local policy store (local_policy_store.c); and the *)
(* attestation state of a connection (imv_attestation_state.c).            *)
(***************************************************************************)
EXTENDS Integers, Sequences, FiniteSets, TLC

VARIABLES
    loadArgs,    \* the builder parts handed to openssl_pkcs7_load
    this,        \* private_openssl_pkcs7_t: [type, cms]
    alloc,       \* allocation state of the container object and its CMS_ContentInfo
    enumerator,  \* signature_enumerator_t, or the empty enumerator
    enumAlloc,   \* allocation state of the enumerator
    auths,       \* every auth_cfg_t created by auth->clone(), with its release counts
    out,         \* the caller's auth_cfg_t* that enumerate() writes through *out
    held,        \* auth_cfg_t objects the caller received and has not released itself
    data,        \* the caller's chunk_t that get_data() writes through *data
    trace,       \* one entry per signer examined by signature_enumerate, in order
    call,        \* the last call of the public interface and what it returned
    ub,          \* undefined behaviour (double free, read of freed memory) happened
    fn,          \* the last direct application of verify_signature / verify_digest
    policies,    \* this->policies of the local policy store: the list of policy_t
    pol,         \* every policy_t handed to add_policy, with its reference count
    mutex,       \* this->mutex of the store: the thread that holds it, 0 when free
    iterator,    \* the thread that holds the store's locked iterator, 0 when none
    thr,         \* per thread: the store operation it is in and its local variables
    fault,       \* the memory fault a store operation ran into, "none" before
    storeAlloc,  \* allocation state of the store object
    calls,       \* how many operations of the store have been called
    request_counter, \* this->request_counter of the attestation state (u_int16_t)
    requests,    \* this->requests: the list of outstanding request_t
    reqOut,      \* the caller's int and bool that check_off_request writes through
    imvCall,     \* the last request operation called on the attestation state
    tally,       \* how many requests were added and how many were checked off
    reason       \* get_reason_string: its position, local variables and outputs

\* the variables of the local policy store
storeVars == <<policies, pol, mutex, iterator, thr, fault, storeAlloc, calls>>

\* the variables of the attestation state
imvVars == <<request_counter, requests, reqOut, imvCall, tally, reason>>

vars == <<loadArgs, this, alloc, enumerator, enumAlloc, auths, out, held,
          data, trace, call, ub, fn, storeVars, imvVars>>

NULL == "NULL"

(***************************************************************************)
(* Bounds of the model.                                                    *)
(***************************************************************************)
MaxSigners == 3
MaxCandidates == 3
MaxPolicies == 3
MaxCalls == 4
MaxEntries == 2

(***************************************************************************)
(* Object identifiers and enumeration values.                              *)
(***************************************************************************)
ContentOIDs == {"OID_PKCS7_DATA", "OID_PKCS7_SIGNED_DATA",
                "OID_PKCS7_ENVELOPED_DATA", "OID_PKCS7_DIGESTED_DATA",
                "OID_UNKNOWN"}

HashOIDs == {"OID_SHA256", "OID_SHA1", "OID_MD5", "OID_UNKNOWN"}

SigOIDs == {"OID_RSA_ENCRYPTION", "OID_EC_PUBLICKEY"}

Issuers == {"CN=CA1", "CN=CA2"}

Keys == {"K1", "K2"}

Contents == {"c1", "c2"}

(***************************************************************************)
(* External collaborators: the hashing and signature primitives and the    *)
(* OID mappings of the crypto library.                                     *)
(***************************************************************************)
signature_scheme_from_oid(hash_oid) ==
    CASE hash_oid = "OID_SHA256" -> "SIGN_RSA_EMSA_PKCS1_SHA256"
      [] hash_oid = "OID_SHA1"   -> "SIGN_RSA_EMSA_PKCS1_SHA1"
      [] hash_oid = "OID_MD5"    -> "SIGN_RSA_EMSA_PKCS1_MD5"
      [] OTHER                   -> "SIGN_UNKNOWN"

hasher_algorithm_from_oid(hash_oid) ==
    CASE hash_oid = "OID_SHA256" -> "HASH_SHA256"
      [] hash_oid = "OID_SHA1"   -> "HASH_SHA1"
      [] hash_oid = "OID_MD5"    -> "HASH_MD5"
      [] OTHER                   -> "HASH_UNKNOWN"

\* Hash algorithms some loaded plugin implements; HASH_MD5 is mapped but has none.
AvailableHashers == {"HASH_SHA256", "HASH_SHA1"}

\* lib->crypto->create_hasher: the hasher, or NULL when no plugin provides it.
create_hasher(hash_alg) ==
    IF hash_alg \in AvailableHashers THEN hash_alg ELSE NULL

\* The hash function itself: collision-free on the modelled contents.
HashValue(hash_alg, content) == hash_alg \o "(" \o content \o ")"

\* hasher->allocate_hash: [ok, hash].  The HASH_SHA1 hasher of this
\* environment fails to produce a hash (allocate_hash returns FALSE).
allocate_hash(hasher, content) ==
    IF hasher = "HASH_SHA1"
    THEN [ok |-> FALSE, hash |-> NULL]
    ELSE [ok |-> TRUE, hash |-> HashValue(hasher, content)]

\* The signature a private key produces over data under a scheme.
RSASign(key, scheme, octets) == <<"sig", key, scheme, octets>>

\* key->verify(key, scheme, data, sig)
key_verify(key, scheme, octets, sig) ==
    /\ scheme # "SIGN_UNKNOWN"
    /\ sig = RSASign(key, scheme, octets)

(***************************************************************************)
(* Signed attributes and their DER re-encoding.                            *)
(***************************************************************************)
MessageDigestAttr(d) == [oid |-> "OID_PKCS9_MESSAGE_DIGEST", val |-> d]

ContentTypeAttr == [oid |-> "OID_PKCS9_CONTENT_TYPE", val |-> "OID_PKCS7_DATA"]

\* openssl_i2chunk(X509_ATTRIBUTE, attr): the DER encoding of one attribute
i2chunk_attribute(attr) == <<"SEQ", attr.oid, <<"SET", attr.val>>>>

RECURSIVE chunk_cat_attrs(_, _)
\* the loop of verify_signature that concatenates the encoded attributes
chunk_cat_attrs(signedAttrs, k) ==
    IF k > Len(signedAttrs) THEN <<>>
    ELSE <<i2chunk_attribute(signedAttrs[k])>> \o chunk_cat_attrs(signedAttrs, k + 1)

\* asn1_wrap(0x31, "m", attrs): the SET OF Attribute the signature is over
ReencodeAttrs(signedAttrs) == <<"SET", chunk_cat_attrs(signedAttrs, 1)>>

\* CMS_signed_get0_data_by_OBJ(si, messageDigest, -3, V_ASN1_OCTET_STRING):
\* the value of the messageDigest attribute, NULL when there is none.
\* A decoded signer carries each attribute type at most once.
CMS_signed_get0_data_by_OBJ(si) ==
    LET idx == {k \in 1..Len(si.signedAttrs) :
                    si.signedAttrs[k].oid = "OID_PKCS9_MESSAGE_DIGEST"}
    IN  IF idx = {} THEN NULL
        ELSE si.signedAttrs[CHOOSE k \in idx : \A j \in idx : k <= j].val

(***************************************************************************)
(* verify_signature: the signer resolver.                                  *)
(* A candidate is a (certificate, auth) pair of the trusted enumerator:    *)
(* [issuer, key (NULL: no public key), auth].                              *)
(* The result is [found, queried, attempts]: the auth to clone or NULL,    *)
(* whether the trust store was queried, and the positions of the           *)
(* candidates key->verify was called for, in call order.                   *)
(***************************************************************************)
RECURSIVE ScanCandidates_any_issuer(_, _, _, _, _, _, _)
\* the scan without the comparison of the issuers
ScanCandidates_any_issuer(cands, k, issuer, scheme, attrs, sig, attempts) ==
    IF k > Len(cands)
    THEN [found |-> NULL, queried |-> TRUE, attempts |-> attempts]
    ELSE LET cert == cands[k] IN
         IF cert.key # NULL
         THEN IF key_verify(cert.key, scheme, attrs, sig)
              THEN [found |-> cert.auth, queried |-> TRUE,
                    attempts |-> Append(attempts, k)]
              ELSE ScanCandidates_any_issuer(cands, k + 1, issuer, scheme, attrs,
                                             sig, Append(attempts, k))
         ELSE ScanCandidates_any_issuer(cands, k + 1, issuer, scheme, attrs, sig,
                                        attempts)

RECURSIVE ScanCandidates(_, _, _, _, _, _, _)
ScanCandidates(cands, k, issuer, scheme, attrs, sig, attempts) ==
    IF k > Len(cands)
    THEN [found |-> NULL, queried |-> TRUE, attempts |-> attempts]
    ELSE LET cert == cands[k] IN
         IF issuer = cert.issuer /\ cert.key # NULL
         THEN IF key_verify(cert.key, scheme, attrs, sig)
              THEN [found |-> cert.auth, queried |-> TRUE,
                    attempts |-> Append(attempts, k)]
              ELSE ScanCandidates(cands, k + 1, issuer, scheme, attrs, sig,
                                  Append(attempts, k))
         ELSE ScanCandidates(cands, k + 1, issuer, scheme, attrs, sig, attempts)

\* lib->credmgr->create_trusted_enumerator(credmgr, KEY_RSA, serial, FALSE):
\* the trusted certificates of that key type the serial identifies, in the
\* order of the credential manager.
create_trusted_enumerator(credmgr, key_type, serial) ==
    SelectSeq(credmgr, LAMBDA c : c.key_type = key_type /\ c.serial = serial)

\* si.issuer = NULL: CMS_SignerInfo_get0_signer_id failed (the signer is
\* identified by subject key id) or openssl_x509_name2id returned NULL.
verify_signature(si, hash_oid, credmgr) ==
    IF si.issuer = NULL
    THEN [found |-> NULL, queried |-> FALSE, attempts |-> <<>>]
    ELSE ScanCandidates(create_trusted_enumerator(credmgr, "KEY_RSA", si.serial),
                        1, si.issuer, signature_scheme_from_oid(hash_oid),
                        ReencodeAttrs(si.signedAttrs), si.signature, <<>>)

(***************************************************************************)
(* The content of a decoded structure.  cms.content is the embedded octet  *)
(* string, NULL when the structure carries none (detached content).        *)
(***************************************************************************)
\* the chunk of no octets
chunk_empty == ""

\* CMS_get0_content(cms): the address of the field that holds the content
\* (null: FALSE) and what it points to (star), which is NULL when there is
\* no embedded content; a NULL address only for a content type that has no
\* such field.
CMS_get0_content(cms) ==
    IF cms.type \in {NULL, "OID_UNKNOWN"}
    THEN [null |-> TRUE, star |-> NULL]
    ELSE [null |-> FALSE, star |-> cms.content]

\* openssl_asn1_str2chunk(asn1): the octets of the string, none for NULL
openssl_asn1_str2chunk(asn1) == IF asn1 = NULL THEN chunk_empty ELSE asn1

\* chunk_clone(chunk): a copy in memory of its own
chunk_clone(chunk) == <<"clone", chunk>>

(***************************************************************************)
(* verify_digest: the digest binder.  The result is [ok, diag].            *)
(***************************************************************************)
\* verify_digest with the result of chunk_equals taken the wrong way round
verify_digest_inverted(cms, si, hash_oid) ==
    LET os == CMS_signed_get0_data_by_OBJ(si)
        osp == CMS_get0_content(cms)
        content == openssl_asn1_str2chunk(osp.star)
        hasher == create_hasher(hasher_algorithm_from_oid(hash_oid))
        h == allocate_hash(hasher, content)
    IN  IF os = NULL THEN [ok |-> FALSE, diag |-> ""]
        ELSE IF osp.null THEN [ok |-> FALSE, diag |-> ""]
        ELSE IF hasher = NULL
             THEN [ok |-> FALSE, diag |-> "hash algorithm not supported"]
        ELSE IF ~h.ok THEN [ok |-> FALSE, diag |-> ""]
        ELSE IF os = h.hash
             THEN [ok |-> FALSE, diag |-> "invalid messageDigest"]
        ELSE [ok |-> TRUE, diag |-> ""]

\* verify_digest without the comparison of the two digests
verify_digest_uncompared(cms, si, hash_oid) ==
    LET os == CMS_signed_get0_data_by_OBJ(si)
        osp == CMS_get0_content(cms)
        content == openssl_asn1_str2chunk(osp.star)
        hasher == create_hasher(hasher_algorithm_from_oid(hash_oid))
        h == allocate_hash(hasher, content)
    IN  IF os = NULL THEN [ok |-> FALSE, diag |-> ""]
        ELSE IF osp.null THEN [ok |-> FALSE, diag |-> ""]
        ELSE IF hasher = NULL
             THEN [ok |-> FALSE, diag |-> "hash algorithm not supported"]
        ELSE IF ~h.ok THEN [ok |-> FALSE, diag |-> ""]
        ELSE [ok |-> TRUE, diag |-> ""]

verify_digest(cms, si, hash_oid) ==
    LET os == CMS_signed_get0_data_by_OBJ(si)
        osp == CMS_get0_content(cms)
        content == openssl_asn1_str2chunk(osp.star)
        hasher == create_hasher(hasher_algorithm_from_oid(hash_oid))
        h == allocate_hash(hasher, content)
    IN  IF os = NULL THEN [ok |-> FALSE, diag |-> ""]
        ELSE IF osp.null THEN [ok |-> FALSE, diag |-> ""]
        ELSE IF hasher = NULL
             THEN [ok |-> FALSE, diag |-> "hash algorithm not supported"]
        ELSE IF ~h.ok THEN [ok |-> FALSE, diag |-> ""]
        ELSE IF os # h.hash
             THEN [ok |-> FALSE, diag |-> "invalid messageDigest"]
        ELSE [ok |-> TRUE, diag |-> ""]

(***************************************************************************)
(* The decoded structure and the DER blobs it is decoded from.             *)
(***************************************************************************)
\* this->cms of a container that decoded nothing
NullCMS == [type |-> NULL, content |-> NULL, signerInfos |-> <<>>, hasSignerInfos |-> FALSE]

\* The DER encoding of a ContentInfo
DER(cms) == <<"ContentInfo", cms.type, cms.content, cms.signerInfos, cms.hasSignerInfos>>

\* d2i_CMS_bio over the blob: the decoded structure, NullCMS for bytes that
\* are no ContentInfo
d2i_CMS_bio(blob) ==
    IF Len(blob) = 5 /\ blob[1] = "ContentInfo"
    THEN [type |-> blob[2], content |-> blob[3], signerInfos |-> blob[4],
          hasSignerInfos |-> blob[5]]
    ELSE NullCMS

\* A SignerInfo as decoded: issuer and serial of the signer id, the two
\* algorithm identifiers, the signed attributes in order, the signature.
SignerInfo(issuer, serial, digestAlg, sigAlg, signedAttrs, signature) ==
    [issuer |-> issuer, serial |-> serial, digestAlgorithm |-> digestAlg,
     signatureAlgorithm |-> sigAlg, signedAttrs |-> signedAttrs,
     signature |-> signature]

\* What a signer holding `key` produces for its signed attributes
SignAttrs(key, hash_oid, signedAttrs) ==
    RSASign(key, signature_scheme_from_oid(hash_oid), ReencodeAttrs(signedAttrs))

\* Signature bytes replaced by arbitrary bytes
JunkSignature == RSASign("none", "none", <<>>)

AttrsFor(hash_oid, content) ==
    <<ContentTypeAttr,
      MessageDigestAttr(HashValue(hasher_algorithm_from_oid(hash_oid), content))>>

\* The signers the containers of the model are built from
SignerPool ==
    { \* signed by K1 of CN=CA1 over content c1
      SignerInfo("CN=CA1", "01", "OID_SHA256", "OID_RSA_ENCRYPTION",
                 AttrsFor("OID_SHA256", "c1"),
                 SignAttrs("K1", "OID_SHA256", AttrsFor("OID_SHA256", "c1"))),
      \* the same, declaring a signature algorithm that is not RSA
      SignerInfo("CN=CA1", "01", "OID_SHA256", "OID_EC_PUBLICKEY",
                 AttrsFor("OID_SHA256", "c1"),
                 SignAttrs("K1", "OID_SHA256", AttrsFor("OID_SHA256", "c1"))),
      \* the same, with the signature bytes replaced
      SignerInfo("CN=CA1", "01", "OID_SHA256", "OID_RSA_ENCRYPTION",
                 AttrsFor("OID_SHA256", "c1"), JunkSignature),
      \* signed by K1 of CN=CA1 over content c2
      SignerInfo("CN=CA1", "01", "OID_SHA256", "OID_RSA_ENCRYPTION",
                 AttrsFor("OID_SHA256", "c2"),
                 SignAttrs("K1", "OID_SHA256", AttrsFor("OID_SHA256", "c2"))),
      \* signed by K2 of CN=CA2 over content c1
      SignerInfo("CN=CA2", "02", "OID_SHA256", "OID_RSA_ENCRYPTION",
                 AttrsFor("OID_SHA256", "c1"),
                 SignAttrs("K2", "OID_SHA256", AttrsFor("OID_SHA256", "c1"))),
      \* signed by K1 of CN=CA1, without a messageDigest attribute
      SignerInfo("CN=CA1", "01", "OID_SHA256", "OID_RSA_ENCRYPTION",
                 <<ContentTypeAttr>>,
                 SignAttrs("K1", "OID_SHA256", <<ContentTypeAttr>>)) }

\* signed by K1 of CN=CA1, declaring the digest of no octets
DetachedSigner ==
    SignerInfo("CN=CA1", "01", "OID_SHA256", "OID_RSA_ENCRYPTION",
               AttrsFor("OID_SHA256", chunk_empty),
               SignAttrs("K1", "OID_SHA256", AttrsFor("OID_SHA256", chunk_empty)))

RECURSIVE SeqsUpTo(_, _)
\* all sequences over S of length at most n
SeqsUpTo(S, n) ==
    IF n = 0 THEN {<<>>}
    ELSE LET shorter == SeqsUpTo(S, n - 1)
         IN  shorter \cup {Append(q, x) : q \in shorter, x \in S}

\* signed-data structures: every signer sequence over content c1, the
\* shorter ones over c2, and the shortest without content
SignedCMS ==
    {[type |-> "OID_PKCS7_SIGNED_DATA", content |-> "c1", signerInfos |-> q,
      hasSignerInfos |-> TRUE] : q \in SeqsUpTo(SignerPool, MaxSigners)}
    \cup {[type |-> "OID_PKCS7_SIGNED_DATA", content |-> "c2", signerInfos |-> q,
           hasSignerInfos |-> TRUE] : q \in SeqsUpTo(SignerPool, MaxSigners - 1)}
    \cup {[type |-> "OID_PKCS7_SIGNED_DATA", content |-> NULL, signerInfos |-> q,
           hasSignerInfos |-> TRUE] :
                q \in SeqsUpTo(SignerPool \cup {DetachedSigner}, 1)}
    \cup {[type |-> "OID_PKCS7_SIGNED_DATA", content |-> "c1", signerInfos |-> <<>>,
           hasSignerInfos |-> FALSE]}

OtherCMS ==
    {[type |-> t, content |-> c, signerInfos |-> <<>>, hasSignerInfos |-> FALSE] :
        t \in ContentOIDs \ {"OID_PKCS7_SIGNED_DATA"}, c \in {"c1", NULL}}

EmptyBlob == <<>>

\* byte sequences that do not decode: garbage, and a truncated ContentInfo
MalformedBlobs == {<<"junk">>, <<"ContentInfo", "OID_PKCS7_DATA">>}

Blobs == {EmptyBlob} \cup MalformedBlobs \cup {DER(c) : c \in SignedCMS \cup OtherCMS}

BlobPart(b) == [part |-> "BUILD_BLOB_ASN1_DER", blob |-> b]

OtherPart == [part |-> "BUILD_FROM_FILE", blob |-> EmptyBlob]

PlainDataBlob ==
    DER([type |-> "OID_PKCS7_DATA", content |-> "c1", signerInfos |-> <<>>,
         hasSignerInfos |-> FALSE])

\* The builder part lists of the model, each closed by BUILD_END
LoadArgs ==
    {<<>>, <<OtherPart>>}
    \cup {<<BlobPart(b)>> : b \in Blobs}
    \cup {<<BlobPart(PlainDataBlob), OtherPart>>,
          <<BlobPart(<<"junk">>), BlobPart(PlainDataBlob)>>,
          <<BlobPart(PlainDataBlob), BlobPart(<<"junk">>)>>,
          <<BlobPart(PlainDataBlob), BlobPart(EmptyBlob)>>}

\* The trusted certificates of the credential manager, in its order
TrustStore ==
    << [issuer |-> "CN=CA2", serial |-> "01", key_type |-> "KEY_RSA",
        key |-> "K1", auth |-> "authX"],
       [issuer |-> "CN=CA1", serial |-> "01", key_type |-> "KEY_RSA",
        key |-> "K2", auth |-> "authW"],
       [issuer |-> "CN=CA1", serial |-> "01", key_type |-> "KEY_RSA",
        key |-> "K1", auth |-> "authA"],
       [issuer |-> "CN=CA1", serial |-> "01", key_type |-> "KEY_RSA",
        key |-> "K1", auth |-> "authB"],
       [issuer |-> "CN=CA2", serial |-> "02", key_type |-> "KEY_RSA",
        key |-> "K2", auth |-> "authC"] >>

(***************************************************************************)
(* parse and openssl_pkcs7_load.                                           *)
(***************************************************************************)
\* the switch of parse with a default branch that accepts the blob as data
ContainerTypeOf_lenient(oid) ==
    CASE oid = "OID_PKCS7_SIGNED_DATA"    -> "CONTAINER_PKCS7_SIGNED_DATA"
      [] oid = "OID_PKCS7_ENVELOPED_DATA" -> "CONTAINER_PKCS7_ENVELOPED_DATA"
      [] OTHER                            -> "CONTAINER_PKCS7_DATA"

\* the switch of parse with two of its assignments exchanged
ContainerTypeOf_swapped(oid) ==
    CASE oid = "OID_PKCS7_DATA"           -> "CONTAINER_PKCS7_DATA"
      [] oid = "OID_PKCS7_SIGNED_DATA"    -> "CONTAINER_PKCS7_ENVELOPED_DATA"
      [] oid = "OID_PKCS7_ENVELOPED_DATA" -> "CONTAINER_PKCS7_SIGNED_DATA"
      [] OTHER                            -> NULL

\* openssl_asn1_known_oid of the outer content type, mapped by the switch
\* of parse to the container type; NULL for the default branch
ContainerTypeOf(oid) ==
    CASE oid = "OID_PKCS7_DATA"           -> "CONTAINER_PKCS7_DATA"
      [] oid = "OID_PKCS7_SIGNED_DATA"    -> "CONTAINER_PKCS7_SIGNED_DATA"
      [] oid = "OID_PKCS7_ENVELOPED_DATA" -> "CONTAINER_PKCS7_ENVELOPED_DATA"
      [] OTHER                            -> NULL

\* create_empty: the object as INIT leaves it (type 0, no cms)
create_empty == [type |-> "CONTAINER_PKCS7", cms |-> NullCMS]

\* parse(this, blob): [ok, this]
parse(obj, blob) ==
    LET cms == d2i_CMS_bio(blob)
        obj1 == [obj EXCEPT !.cms = cms]
    IN  IF cms = NullCMS THEN [ok |-> FALSE, this |-> obj1]
        ELSE IF ContainerTypeOf(cms.type) = NULL THEN [ok |-> FALSE, this |-> obj1]
        ELSE [ok |-> TRUE, this |-> [obj1 EXCEPT !.type = ContainerTypeOf(cms.type)]]

RECURSIVE ReadBuilderParts(_, _, _)
\* the va_arg loop of openssl_pkcs7_load: [ok, blob]
ReadBuilderParts(args, k, blob) ==
    IF k > Len(args) THEN [ok |-> TRUE, blob |-> blob]
    ELSE IF args[k].part = "BUILD_BLOB_ASN1_DER"
         THEN ReadBuilderParts(args, k + 1, args[k].blob)
         ELSE [ok |-> FALSE, blob |-> blob]

\* destroy(this): CMS_ContentInfo_free(this->cms); free(this)
destroy_alloc(obj) ==
    [this |-> "freed", cms |-> IF obj.cms = NullCMS THEN "none" ELSE "freed"]

\* openssl_pkcs7_load(type, args): [ret, this, alloc]
openssl_pkcs7_load(args) ==
    LET parts == ReadBuilderParts(args, 1, EmptyBlob)
        parsed == parse(create_empty, parts.blob)
    IN  IF ~parts.ok
        THEN [ret |-> NULL, this |-> create_empty,
              alloc |-> [this |-> "none", cms |-> "none"]]
        ELSE IF Len(parts.blob) = 0
        THEN [ret |-> NULL, this |-> create_empty,
              alloc |-> [this |-> "none", cms |-> "none"]]
        ELSE IF parsed.ok
        THEN [ret |-> "this", this |-> parsed.this,
              alloc |-> [this |-> "live", cms |-> "live"]]
        ELSE [ret |-> NULL, this |-> parsed.this,
              alloc |-> destroy_alloc(parsed.this)]

(***************************************************************************)
(* The signature enumerator.                                               *)
(* An auth_cfg_t object is [auth, signer, rel, crel]: the cloned contents, *)
(* the index of the signer it was created for, how often the enumerator    *)
(* destroyed it and how often the caller did.  Objects are named by their  *)
(* position in auths; 0 is the NULL pointer.                               *)
(***************************************************************************)
\* DESTROY_IF(this->auth)
DESTROY_IF(heap, id) ==
    IF id = 0 THEN heap ELSE [heap EXCEPT ![id].rel = @ + 1]

\* the loop without its "clean up previous round"
clean_up_previous_round_leak(heap, e) == heap

\* "clean up previous round": DESTROY_IF(this->auth) at the head of the loop
clean_up_previous_round(heap, e) == DESTROY_IF(heap, e.auth)

\* the signer stack indexed from its end
sk_CMS_SignerInfo_value_reversed(signers, i) == signers[Len(signers) - i]

\* sk_CMS_SignerInfo_value(this->signers, this->i++): the signer at the cursor
sk_CMS_SignerInfo_value(signers, i) == signers[i + 1]

\* the loop body without the test of the signature algorithm
enumerate_round_any_algorithm(e, heap, cms, credmgr) ==
    LET heap1 == clean_up_previous_round(heap, e)
        idx == e.i
        si == sk_CMS_SignerInfo_value(e.signers, idx)
        e1 == [e EXCEPT !.auth = 0, !.i = idx + 1]
        hash_oid == si.digestAlgorithm
        res == verify_signature(si, hash_oid, credmgr)
        heap2 == Append(heap1, [auth |-> res.found, signer |-> idx,
                                rel |-> 0, crel |-> 0])
        e2 == [e1 EXCEPT !.auth = Len(heap2)]
        bound == verify_digest(cms, si, hash_oid)
        entry == [signer |-> idx, si |-> si, step |-> "yield", diag |-> "",
                  queried |-> res.queried, attempts |-> res.attempts,
                  bound |-> TRUE]
    IN  IF res.found = NULL
        THEN [yield |-> FALSE, e |-> e1, heap |-> heap1,
              entry |-> [entry EXCEPT !.step = "signature", !.bound = FALSE,
                         !.diag = "unable to verify pkcs7 attributes signature"]]
        ELSE IF ~bound.ok
        THEN [yield |-> FALSE, e |-> e2, heap |-> heap2,
              entry |-> [entry EXCEPT !.step = "digest", !.diag = bound.diag]]
        ELSE [yield |-> TRUE, e |-> e2, heap |-> heap2, entry |-> entry]

\* The outcome of the loop body of signature_enumerate for the signer at
\* e.i: [yield, e, heap, entry].
enumerate_round(e, heap, cms, credmgr) ==
    LET heap1 == clean_up_previous_round(heap, e)
        idx == e.i
        si == sk_CMS_SignerInfo_value(e.signers, idx)
        e1 == [e EXCEPT !.auth = 0, !.i = idx + 1]
        hash_oid == si.digestAlgorithm
        res == verify_signature(si, hash_oid, credmgr)
        heap2 == Append(heap1, [auth |-> res.found, signer |-> idx,
                                rel |-> 0, crel |-> 0])
        e2 == [e1 EXCEPT !.auth = Len(heap2)]
        bound == verify_digest(cms, si, hash_oid)
        entry == [signer |-> idx, si |-> si, step |-> "yield", diag |-> "",
                  queried |-> res.queried, attempts |-> res.attempts,
                  bound |-> TRUE]
    IN  IF si.signatureAlgorithm # "OID_RSA_ENCRYPTION"
        THEN [yield |-> FALSE, e |-> e1, heap |-> heap1,
              entry |-> [signer |-> idx, si |-> si, step |-> "algorithm",
                         diag |-> "only RSA digest encryption supported",
                         queried |-> FALSE, attempts |-> <<>>, bound |-> FALSE]]
        ELSE IF res.found = NULL
        THEN [yield |-> FALSE, e |-> e1, heap |-> heap1,
              entry |-> [entry EXCEPT !.step = "signature", !.bound = FALSE,
                         !.diag = "unable to verify pkcs7 attributes signature"]]
        ELSE IF ~bound.ok
        THEN [yield |-> FALSE, e |-> e2, heap |-> heap2,
              entry |-> [entry EXCEPT !.step = "digest", !.diag = bound.diag]]
        ELSE [yield |-> TRUE, e |-> e2, heap |-> heap2, entry |-> entry]

RECURSIVE enumerate_loop(_, _, _, _, _)

\* enumerate_loop putting the cursor back when it yields
enumerate_loop_keep_cursor(e, heap, tr, cms, credmgr) ==
    IF ~(e.i < Len(e.signers))
    THEN [ret |-> FALSE, out |-> 0, e |-> e, heap |-> heap, trace |-> tr]
    ELSE LET r == enumerate_round(e, heap, cms, credmgr) IN
         IF r.yield
         THEN [ret |-> TRUE, out |-> r.e.auth, e |-> [r.e EXCEPT !.i = e.i],
               heap |-> r.heap, trace |-> Append(tr, r.entry)]
         ELSE enumerate_loop(r.e, r.heap, Append(tr, r.entry), cms, credmgr)

\* enumerate_loop returning at the first signer that fails, instead of
\* continuing with the next one
enumerate_loop_abort(e, heap, tr, cms, credmgr) ==
    IF ~(e.i < Len(e.signers))
    THEN [ret |-> FALSE, out |-> 0, e |-> e, heap |-> heap, trace |-> tr]
    ELSE LET r == enumerate_round(e, heap, cms, credmgr) IN
         [ret |-> r.yield, out |-> IF r.yield THEN r.e.auth ELSE 0, e |-> r.e,
          heap |-> r.heap, trace |-> Append(tr, r.entry)]

\* the while loop of signature_enumerate: [ret, out, e, heap, trace];
\* out = 0 when *out was not written
enumerate_loop(e, heap, tr, cms, credmgr) ==
    IF ~(e.i < Len(e.signers))
    THEN [ret |-> FALSE, out |-> 0, e |-> e, heap |-> heap, trace |-> tr]
    ELSE LET r == enumerate_round(e, heap, cms, credmgr) IN
         IF r.yield
         THEN [ret |-> TRUE, out |-> r.e.auth, e |-> r.e, heap |-> r.heap,
               trace |-> Append(tr, r.entry)]
         ELSE enumerate_loop(r.e, r.heap, Append(tr, r.entry), cms, credmgr)

\* signature_enumerate rewinding its cursor when it reaches the end
signature_enumerate_rewind(e, heap, tr, cms, credmgr) ==
    IF ~e.hasSigners
    THEN [ret |-> FALSE, out |-> 0, e |-> e, heap |-> heap, trace |-> tr]
    ELSE IF ~(e.i < Len(e.signers))
    THEN [ret |-> FALSE, out |-> 0, e |-> [e EXCEPT !.i = 0], heap |-> heap,
          trace |-> tr]
    ELSE enumerate_loop(e, heap, tr, cms, credmgr)

\* signature_enumerate(this, out)
signature_enumerate(e, heap, tr, cms, credmgr) ==
    IF ~e.hasSigners
    THEN [ret |-> FALSE, out |-> 0, e |-> e, heap |-> heap, trace |-> tr]
    ELSE enumerate_loop(e, heap, tr, cms, credmgr)

\* signature_destroy that only frees the enumerator
signature_destroy_leak(e, heap) == heap

\* signature_destroy(this): the auth_cfg_t objects after DESTROY_IF(this->auth)
signature_destroy(e, heap) == DESTROY_IF(heap, e.auth)

\* No enumerator yet
NoEnumerator ==
    [kind |-> "none", signers |-> <<>>, hasSigners |-> FALSE, i |-> 0, auth |-> 0]

\* enumerator_create_empty()
EmptyEnumerator == [NoEnumerator EXCEPT !.kind = "empty"]

\* create_signature_enumerator without the test of the container type
create_signature_enumerator_untyped(obj) ==
    [kind |-> "signature", signers |-> obj.cms.signerInfos,
     hasSigners |-> obj.cms.hasSignerInfos, i |-> 0, auth |-> 0]

\* create_signature_enumerator(this): the new enumerator; .cms and .signers
\* point into the decoded structure of the container
create_signature_enumerator(obj) ==
    IF obj.type = "CONTAINER_PKCS7_SIGNED_DATA"
    THEN [kind |-> "signature", signers |-> obj.cms.signerInfos,
          hasSigners |-> obj.cms.hasSignerInfos, i |-> 0, auth |-> 0]
    ELSE EmptyEnumerator

\* get_type(this)
get_type(obj) == obj.type

\* get_data(this, data): [ret, data]; data is the chunk as the call leaves it
get_data(obj, chunk) ==
    LET os == CMS_get0_content(obj.cms) IN
    IF obj.type \in {"CONTAINER_PKCS7_DATA", "CONTAINER_PKCS7_SIGNED_DATA"}
       /\ ~os.null
    THEN [ret |-> TRUE, data |-> chunk_clone(openssl_asn1_str2chunk(os.star))]
    ELSE [ret |-> FALSE, data |-> chunk]

\* get_encoding(this, data)
get_encoding(obj, chunk) == [ret |-> FALSE, data |-> chunk]

(***************************************************************************)
(* The local policy store (local_policy_store.c): a list of policy_t       *)
(* behind a mutex, used by several threads.                                *)
(***************************************************************************)
\* the threads that use the store
Threads == {1, 2}

\* A thread that is in no store operation.  op: the operation; pc: the
\* position in its code; policy, name, query: its arguments; found: the
\* local policy_t* (0 is NULL); hit: the local bool of delete_policy; ret:
\* what the last operation returned (for a policy_t*: "NULL" or "policy").
NoQuery == [my_id |-> "", other_id |-> "", my_ts |-> {}, other_ts |-> {}]

IdleThread ==
    [op |-> "none", pc |-> 0, policy |-> 0, name |-> "", query |-> NoQuery,
     found |-> 0, hit |-> FALSE, ret |-> ""]

\* identification_t values: plain IDs, an ID with one wildcard, and %any
PlainIDs == {"alice@org", "bob@org", "carol@net"}

MAX_WILDCARDS == 14

\* id->matches(id, other, &wildcards): whether id is included in other,
\* which may hold wildcards, and how many wildcards the match needed
matches(id, other) ==
    IF other = "%any" THEN [ok |-> TRUE, wildcards |-> MAX_WILDCARDS]
    ELSE IF id = other THEN [ok |-> TRUE, wildcards |-> 0]
    ELSE IF other = "*@org" /\ id \in {"alice@org", "bob@org"}
    THEN [ok |-> TRUE, wildcards |-> 1]
    ELSE [ok |-> FALSE, wildcards |-> 0]

\* prio_t of get_policy
PRIO_UNDEFINED == 0
PRIO_ID_ANY == 1
PRIO_ID_MATCH == PRIO_ID_ANY + MAX_WILDCARDS

\* A policy_t: its name, its two IDs, its traffic selectors for each side
\* and its reference count (0: destroyed).
Policy(name, my_id, other_id, my_ts, other_ts) ==
    [name |-> name, my_id |-> my_id, other_id |-> other_id, my_ts |-> my_ts,
     other_ts |-> other_ts, refcount |-> 1]

\* policy->select_my_traffic_selectors(policy, ts, host): the selectors of
\* the policy that the supplied ones narrow to
select_my_traffic_selectors(policy, ts) == policy.my_ts \cap ts

select_other_traffic_selectors(policy, ts) == policy.other_ts \cap ts

\* contains_traffic_selectors(policy, mine, ts, host)
contains_traffic_selectors(policy, mine, ts) ==
    LET selected == IF mine THEN select_my_traffic_selectors(policy, ts)
                    ELSE select_other_traffic_selectors(policy, ts)
    IN  Cardinality(selected) # 0

RECURSIVE get_policy_iterate_or_equal(_, _, _, _, _)
\* the loop of get_policy taking a candidate of equal priority too
get_policy_iterate_or_equal(heap, list, k, q, best) ==
    IF k > Len(list) THEN best
    ELSE LET candidate == heap[list[k]]
             mine == matches(candidate.my_id, q.my_id)
             other == matches(q.other_id, candidate.other_id)
             prio == IF other.ok THEN PRIO_ID_MATCH - other.wildcards
                     ELSE PRIO_UNDEFINED
         IN  IF ~mine.ok
             THEN get_policy_iterate_or_equal(heap, list, k + 1, q, best)
             ELSE IF \/ ~contains_traffic_selectors(candidate, TRUE, q.my_ts)
                     \/ ~contains_traffic_selectors(candidate, FALSE, q.other_ts)
             THEN get_policy_iterate_or_equal(heap, list, k + 1, q, best)
             ELSE IF prio >= best.best_prio
             THEN get_policy_iterate_or_equal(heap, list, k + 1, q,
                        [found |-> list[k], best_prio |-> prio])
             ELSE get_policy_iterate_or_equal(heap, list, k + 1, q, best)

RECURSIVE get_policy_iterate(_, _, _, _, _)
\* the while loop of get_policy, "determine closest matching policy", from
\* list position k on: [found, best_prio], found = 0 for NULL
get_policy_iterate(heap, list, k, q, best) ==
    IF k > Len(list) THEN best
    ELSE LET candidate == heap[list[k]]
             mine == matches(candidate.my_id, q.my_id)
             other == matches(q.other_id, candidate.other_id)
             prio == IF other.ok THEN PRIO_ID_MATCH - other.wildcards
                     ELSE PRIO_UNDEFINED
         IN  IF ~mine.ok
             THEN get_policy_iterate(heap, list, k + 1, q, best)
             ELSE IF \/ ~contains_traffic_selectors(candidate, TRUE, q.my_ts)
                     \/ ~contains_traffic_selectors(candidate, FALSE, q.other_ts)
             THEN get_policy_iterate(heap, list, k + 1, q, best)
             ELSE IF prio > best.best_prio
             THEN get_policy_iterate(heap, list, k + 1, q,
                        [found |-> list[k], best_prio |-> prio])
             ELSE get_policy_iterate(heap, list, k + 1, q, best)

\* policy->get_ref(policy)
get_ref(heap, id) == [heap EXCEPT ![id].refcount = @ + 1]

\* get_policy(this, my_id, other_id, my_ts, other_ts, ...) between lock and
\* unlock: [found, heap], the policy returned and the policies afterwards
get_policy_locked(heap, list, q) ==
    LET best == get_policy_iterate(heap, list, 1, q,
                    [found |-> 0, best_prio |-> PRIO_UNDEFINED])
    IN  IF best.found # 0
        THEN [found |-> best.found, heap |-> get_ref(heap, best.found)]
        ELSE [found |-> 0, heap |-> heap]

\* policy->destroy(policy): drops one reference, the last one frees it
policy_destroy(heap, id) == [heap EXCEPT ![id].refcount = @ - 1]

RECURSIVE get_policy_by_name_iterate(_, _, _, _, _)
\* the while loop of get_policy_by_name from list position k on: found
get_policy_by_name_iterate(heap, list, k, name, found) ==
    IF k > Len(list) THEN found
    ELSE IF heap[list[k]].name = name
         THEN get_policy_by_name_iterate(heap, list, k + 1, name, list[k])
         ELSE get_policy_by_name_iterate(heap, list, k + 1, name, found)

\* the loop of delete_policy leaving it after the first policy it removed
delete_policy_iterate_break(heap, list, k, name, hit) ==
    LET at == {j \in 1..Len(list) : heap[list[j]].name = name}
        first == CHOOSE j \in at : \A i \in at : j <= i
    IN  IF at = {} THEN [heap |-> heap, list |-> list, found |-> FALSE]
        ELSE [heap |-> policy_destroy(heap, list[first]),
              list |-> SubSeq(list, 1, first - 1) \o SubSeq(list, first + 1, Len(list)),
              found |-> TRUE]

RECURSIVE delete_policy_iterate(_, _, _, _, _)
\* the while loop of delete_policy from list position k on:
\* [heap, list, found]; iterator->remove takes the current policy out of
\* the list and the iteration goes on with the one after it
delete_policy_iterate(heap, list, k, name, hit) ==
    IF k > Len(list) THEN [heap |-> heap, list |-> list, found |-> hit]
    ELSE IF heap[list[k]].name = name
         THEN delete_policy_iterate(policy_destroy(heap, list[k]),
                    SubSeq(list, 1, k - 1) \o SubSeq(list, k + 1, Len(list)),
                    k, name, TRUE)
         ELSE delete_policy_iterate(heap, list, k + 1, name, hit)

RECURSIVE destroy_offset(_, _, _)
\* this->policies->destroy_offset(this->policies, offsetof(policy_t, destroy))
destroy_offset(heap, list, k) ==
    IF k > Len(list) THEN heap
    ELSE destroy_offset(policy_destroy(heap, list[k]), list, k + 1)

\* The statements of each operation of the store, in the order it runs them
add_policy_unlocked == <<"insert_last", "return">>

add_policy == <<"lock", "insert_last", "unlock", "return">>

get_policy == <<"lock", "get_policy_locked", "unlock", "return">>

get_policy_by_name == <<"lock", "iterate_by_name", "unlock", "get_ref", "return">>

delete_policy == <<"lock", "iterate_remove", "unlock", "return">>

create_iterator == <<"create_iterator_locked", "return">>

destroy == <<"lock", "destroy_offset", "unlock", "free">>

Code(op) ==
    CASE op = "add_policy"         -> add_policy
      [] op = "get_policy"         -> get_policy
      [] op = "get_policy_by_name" -> get_policy_by_name
      [] op = "delete_policy"      -> delete_policy
      [] op = "create_iterator"    -> create_iterator
      [] op = "destroy"            -> destroy

\* the policies callers add, the names and the ID pairs they ask for
StorePolicies ==
    {Policy("a", "alice@org", "bob@org", {"ts1"}, {"ts1"}),
     Policy("b", "alice@org", "%any", {"ts1"}, {"ts1"})}

StoreNames == {"a", "b"}

StoreQueries ==
    {[my_id |-> "alice@org", other_id |-> o, my_ts |-> {"ts1"}, other_ts |-> {"ts1"}] :
        o \in {"bob@org"}}

(***************************************************************************)
(* The attestation state of a connection (imv_attestation_state.c): the    *)
(* bookkeeping of file measurement requests, and the reason string.        *)
(***************************************************************************)
\* the number of values of u_int16_t, the type of request_counter and request_t.id
U16 == 65536

\* the files a measurement is requested for
FileIds == {1, 2}

\* the caller's file_id and is_dir before check_off_request has written them
NoOutput == [file_id |-> 0, is_dir |-> FALSE]

\* malloc_thing(request_t) with its three fields set
request_t(id, file_id, is_dir) == [id |-> id, file_id |-> file_id, is_dir |-> is_dir]

\* add_request(): ++this->request_counter in 16 bits, the new entry appended
\* to the list, and the counter returned
add_request(counter, list, file_id, is_dir) ==
    LET incremented == (counter + 1) % U16 IN
    [request_counter |-> incremented,
     requests |-> Append(list, request_t(incremented, file_id, is_dir)),
     ret |-> incremented]

RECURSIVE check_off_enumerate(_, _, _)
\* the loop of check_off_request() from position k of the list: the position
\* of the first request with the id, where the loop breaks, 0 when it runs out
check_off_enumerate(list, k, id) ==
    IF k > Len(list) THEN 0
    ELSE IF list[k].id = id THEN k
    ELSE check_off_enumerate(list, k + 1, id)

\* requests->remove_at(requests, enumerator): the list without position k
remove_at(list, k) == SubSeq(list, 1, k - 1) \o SubSeq(list, k + 1, Len(list))

\* check_off_request() without the break of line 235: every request with the
\* id is removed, and the outputs are those of the last of them
check_off_request_no_break(list, id, output) ==
    LET hits == {k \in 1..Len(list) : list[k].id = id}
        last == CHOOSE k \in hits : \A j \in hits : j <= k IN
    IF hits = {}
    THEN [requests |-> list, output |-> output, ret |-> FALSE]
    ELSE [requests |-> SelectSeq(list, LAMBDA r : r.id # id),
          output |-> [file_id |-> list[last].file_id, is_dir |-> list[last].is_dir],
          ret |-> TRUE]

\* check_off_request(): the list after, the caller's outputs after, and the
\* value returned
check_off_request(list, id, output) ==
    LET k == check_off_enumerate(list, 1, id) IN
    IF k = 0
    THEN [requests |-> list, output |-> output, ret |-> FALSE]
    ELSE [requests |-> remove_at(list, k),
          output |-> [file_id |-> list[k].file_id, is_dir |-> list[k].is_dir],
          ret |-> TRUE]

\* get_request_count()
get_request_count(list) == Len(list)

\* a caller that adds a request and checks it off at once
round_trip(st) ==
    LET added == add_request(st.request_counter, st.requests, 1, FALSE)
        checked == check_off_request(added.requests, added.ret, st.output) IN
    [request_counter |-> added.request_counter,
     requests |-> checked.requests,
     output |-> checked.output]

RECURSIVE round_trips(_, _)
\* n round trips in a row, the first half of them before the second half
round_trips(st, n) ==
    IF n = 0 THEN st
    ELSE IF n = 1 THEN round_trip(st)
    ELSE LET half == round_trips(st, n \div 2) IN
         IF half.request_counter < U16
         THEN round_trips(half, n - (n \div 2))
         ELSE st

\* the round trips of a long-lived connection
BurstRounds == U16 - 1

\* a chunk_t of characters is a sequence of one-character strings

\* reasons[]: the table of reason strings, the Mongolian and the German text
\* in ASCII
reasons ==
    <<[lang |-> <<"e", "n">>,
       string |-> "IMC Attestation Measurement/s of requested file didn't match"],
      [lang |-> <<"m", "n">>,
       string |-> "IMC Attestation (Mongolian text)"],
      [lang |-> <<"d", "e">>,
       string |-> "IMC Attestation Messung/en von angefordeten Datein stimmt nicht ueberein"]>>

RECURSIVE skip_whitespace(_)
\* the loop of eat_whitespace(): src without its leading spaces and tabs
skip_whitespace(src) ==
    IF src # <<>> /\ Head(src) \in {" ", "\t"}
    THEN skip_whitespace(Tail(src))
    ELSE src

\* eat_whitespace(&src) of the lexparser: src after, and whether something
\* other than a comment is left
eat_whitespace(src) ==
    LET rest == skip_whitespace(src) IN
    [src |-> rest,
     ret |-> IF rest = <<>> THEN FALSE ELSE Head(rest) # "#"]

RECURSIVE memchr(_, _, _)
\* memchr(): the first position from k on that holds the character, 0 for NULL
memchr(src, c, k) ==
    IF k > Len(src) THEN 0
    ELSE IF src[k] = c THEN k
    ELSE memchr(src, c, k + 1)

\* extract_token(&token, termination, &src) of the lexparser: without the
\* termination character the token is empty and src is left as it is
extract_token(termination, src) ==
    LET eot == memchr(src, termination, 1) IN
    IF eot = 0
    THEN [token |-> <<>>, src |-> src, ret |-> FALSE]
    ELSE [token |-> SubSeq(src, 1, eot - 1),
          src |-> SubSeq(src, eot + 1, Len(src)),
          ret |-> TRUE]

RECURSIVE eat_trailing_whitespace(_)
\* the loop of lines 150-154: pref_lang without its trailing spaces
eat_trailing_whitespace(pref_lang) ==
    IF Len(pref_lang) > 0 /\ pref_lang[Len(pref_lang)] = " "
    THEN eat_trailing_whitespace(SubSeq(pref_lang, 1, Len(pref_lang) - 1))
    ELSE pref_lang

RECURSIVE reasons_lookup(_, _)
\* the for loop of lines 156-166 from entry i: the first entry whose language
\* equals pref_lang, 0 when the loop runs out
reasons_lookup(pref_lang, i) ==
    IF i > Len(reasons) THEN 0
    ELSE IF reasons[i].lang = pref_lang THEN i
    ELSE reasons_lookup(pref_lang, i + 1)

\* the caller's reason_string and reason_language before they are written
NoReason == [reason_string |-> "", reason_language |-> <<>>]

\* *reason_string and *reason_language set from entry i of the table
reason_entry(i) ==
    [reason_string |-> reasons[i].string, reason_language |-> reasons[i].lang]

\* get_reason_string() has not been called
ReasonIdle ==
    [pc |-> "idle", arg |-> <<>>, preferred_language |-> <<>>,
     pref_lang |-> <<>>, output |-> NoReason, ret |-> FALSE]

\* the languages a peer names, with and without spaces around them
Languages == {<<>>, <<"e", "n">>, <<"m", "n">>, <<"d", "e">>, <<"f", "r">>}

Padded ==
    {lead \o word \o trail :
        lead \in {<<>>, <<" ">>}, word \in Languages, trail \in {<<>>, <<" ">>}}

RECURSIVE LanguageLists(_)
\* the comma-separated lists of at most n entries
LanguageLists(n) ==
    IF n <= 1 THEN Padded
    ELSE LET shorter == LanguageLists(n - 1) IN
         shorter \cup {first \o <<",">> \o rest : first \in Padded, rest \in shorter}

PreferredLanguages == LanguageLists(MaxEntries)

(***************************************************************************)
(* The state machine: one container, loaded once, with at most one         *)
(* signature enumerator, driven by a caller.                               *)
(***************************************************************************)
Init ==
    /\ loadArgs = <<>>
    /\ this = create_empty
    /\ alloc = [this |-> "none", cms |-> "none"]
    /\ enumerator = NoEnumerator
    /\ enumAlloc = "none"
    /\ auths = <<>>
    /\ out = 0
    /\ held = {}
    /\ data = <<"uninitialised">>
    /\ trace = <<>>
    /\ call = [op |-> "none", ret |-> NULL]
    /\ ub = FALSE
    /\ fn = [op |-> "none"]
    /\ policies = <<>>
    /\ pol = <<>>
    /\ mutex = 0
    /\ iterator = 0
    /\ thr = [t \in Threads |-> IdleThread]
    /\ fault = "none"
    /\ storeAlloc = "live"
    /\ calls = 0
    /\ request_counter = 0
    /\ requests = <<>>
    /\ reqOut = NoOutput
    /\ imvCall = [op |-> "none", id |-> 0, ret |-> TRUE]
    /\ tally = [added |-> 0, checked |-> 0, calls |-> 0, bursts |-> 0]
    /\ reason = ReasonIdle

\* an auth_cfg_t destroyed a second time
DoubleFree(heap) == \E id \in 1..Len(heap) : heap[id].rel + heap[id].crel > 1

\* lib->creds: openssl_pkcs7_load(CONTAINER_PKCS7, args)
Load ==
    /\ ~ub
    /\ call.op = "none"
    /\ fn.op = "none"
    /\ \E args \in LoadArgs :
        LET r == openssl_pkcs7_load(args) IN
        /\ loadArgs' = args
        /\ this' = r.this
        /\ alloc' = r.alloc
        /\ call' = [op |-> "load", ret |-> r.ret]
    /\ UNCHANGED <<enumerator, enumAlloc, auths, out, held, data, trace, ub, fn>>
    /\ UNCHANGED storeVars
    /\ UNCHANGED imvVars

GetType ==
    /\ ~ub
    /\ alloc.this = "live"
    /\ call' = [op |-> "get_type", ret |-> get_type(this)]
    /\ UNCHANGED <<loadArgs, this, alloc, enumerator, enumAlloc, auths, out, held,
                   data, trace, ub, fn>>
    /\ UNCHANGED storeVars
    /\ UNCHANGED imvVars

GetData ==
    /\ ~ub
    /\ alloc.this = "live"
    /\ LET r == get_data(this, data) IN
        /\ call' = [op |-> "get_data", ret |-> r.ret]
        /\ data' = r.data
    /\ UNCHANGED <<loadArgs, this, alloc, enumerator, enumAlloc, auths, out, held,
                   trace, ub, fn>>
    /\ UNCHANGED storeVars
    /\ UNCHANGED imvVars

GetEncoding ==
    /\ ~ub
    /\ alloc.this = "live"
    /\ LET r == get_encoding(this, data) IN
        /\ call' = [op |-> "get_encoding", ret |-> r.ret]
        /\ data' = r.data
    /\ UNCHANGED <<loadArgs, this, alloc, enumerator, enumAlloc, auths, out, held,
                   trace, ub, fn>>
    /\ UNCHANGED storeVars
    /\ UNCHANGED imvVars

CreateSignatureEnumerator ==
    /\ ~ub
    /\ alloc.this = "live"
    /\ enumAlloc = "none"
    /\ enumerator' = create_signature_enumerator(this)
    /\ enumAlloc' = "live"
    /\ call' = [op |-> "create_signature_enumerator", ret |-> "enumerator"]
    /\ UNCHANGED <<loadArgs, this, alloc, auths, out, held, data, trace, ub, fn>>
    /\ UNCHANGED storeVars
    /\ UNCHANGED imvVars

\* enumerator->enumerate(enumerator, &out) while the decoded structure the
\* enumerator points into is alive (or is not read: empty enumerator, no
\* signer stack)
Enumerate ==
    /\ ~ub
    /\ enumAlloc = "live"
    /\ alloc.cms = "live" \/ ~enumerator.hasSigners
    /\ LET r == IF enumerator.kind = "empty"
                THEN [ret |-> FALSE, out |-> 0, e |-> enumerator, heap |-> auths,
                      trace |-> trace]
                ELSE signature_enumerate(enumerator, auths, trace, this.cms,
                                         TrustStore)
       IN
        /\ enumerator' = r.e
        /\ auths' = r.heap
        /\ trace' = r.trace
        /\ out' = IF r.ret THEN r.out ELSE out
        /\ held' = IF r.ret THEN held \cup {r.out} ELSE held
        /\ call' = [op |-> "enumerate", ret |-> r.ret]
        /\ ub' = DoubleFree(r.heap)
    /\ UNCHANGED <<loadArgs, this, alloc, enumAlloc, data, fn>>
    /\ UNCHANGED storeVars
    /\ UNCHANGED imvVars

\* enumerate() after destroy() of the container: sk_CMS_SignerInfo_num reads
\* the freed signer stack.  Undefined behaviour: any return value.
EnumerateDangling ==
    /\ ~ub
    /\ enumAlloc = "live"
    /\ enumerator.hasSigners
    /\ alloc.cms = "freed"
    /\ \E ret \in BOOLEAN : call' = [op |-> "enumerate", ret |-> ret]
    /\ ub' = TRUE
    /\ UNCHANGED <<loadArgs, this, alloc, enumerator, enumAlloc, auths, out, held,
                   data, trace, fn>>
    /\ UNCHANGED storeVars
    /\ UNCHANGED imvVars

\* signature_destroy(this) (free() alone for the empty enumerator)
SignatureDestroy ==
    /\ ~ub
    /\ enumAlloc = "live"
    /\ auths' = signature_destroy(enumerator, auths)
    /\ enumAlloc' = "freed"
    /\ call' = [op |-> "enumerator_destroy", ret |-> NULL]
    /\ ub' = DoubleFree(auths')
    /\ UNCHANGED <<loadArgs, this, alloc, enumerator, out, held, data, trace, fn>>
    /\ UNCHANGED storeVars
    /\ UNCHANGED imvVars

\* destroy(this) of the container
Destroy ==
    /\ ~ub
    /\ alloc.this = "live"
    /\ alloc' = destroy_alloc(this)
    /\ call' = [op |-> "destroy", ret |-> NULL]
    /\ UNCHANGED <<loadArgs, this, enumerator, enumAlloc, auths, out, held, data,
                   trace, ub, fn>>
    /\ UNCHANGED storeVars
    /\ UNCHANGED imvVars

\* The caller destroys an auth_cfg_t it received from enumerate()
CallerRelease(id) ==
    /\ ~ub
    /\ id \in held
    /\ auths' = [auths EXCEPT ![id].crel = @ + 1]
    /\ held' = held \ {id}
    /\ ub' = DoubleFree(auths')
    /\ UNCHANGED <<loadArgs, this, alloc, enumerator, enumAlloc, out, data, trace,
                   call, fn>>
    /\ UNCHANGED storeVars
    /\ UNCHANGED imvVars

Next ==
    \/ Load
    \/ GetType
    \/ GetData
    \/ GetEncoding
    \/ CreateSignatureEnumerator
    \/ Enumerate
    \/ EnumerateDangling
    \/ SignatureDestroy
    \/ Destroy
    \/ \E id \in held : CallerRelease(id)

Spec == Init /\ [][Next]_vars

(***************************************************************************)
(* verify_signature and verify_digest applied directly, over wider inputs  *)
(* than the containers above carry.                                        *)
(***************************************************************************)
FnDigests ==
    {HashValue(a, c) : a \in {"HASH_SHA256", "HASH_SHA1", "HASH_MD5"},
                       c \in Contents \cup {chunk_empty}}

FnDigestAttrs ==
    {<<>>, <<ContentTypeAttr>>}
    \cup {<<MessageDigestAttr(d)>> : d \in FnDigests}
    \cup {<<ContentTypeAttr, MessageDigestAttr(d)>> : d \in FnDigests}
    \cup {<<MessageDigestAttr(d), ContentTypeAttr>> : d \in FnDigests}

FnSignedAttrs == {<<>>, AttrsFor("OID_SHA256", "c1")}

FnSignatures ==
    {JunkSignature}
    \cup {RSASign(k, sch, ReencodeAttrs(a)) :
            k \in Keys, sch \in {"SIGN_RSA_EMSA_PKCS1_SHA256", "SIGN_UNKNOWN"},
            a \in FnSignedAttrs}

FnSigners ==
    {SignerInfo(iss, "01", "OID_SHA256", "OID_RSA_ENCRYPTION", a, sig) :
        iss \in Issuers \cup {NULL}, a \in FnSignedAttrs, sig \in FnSignatures}

FnCerts ==
    {[issuer |-> "CN=CA1", serial |-> "01", key_type |-> "KEY_RSA", key |-> k,
      auth |-> ""] : k \in Keys \cup {NULL}}
    \cup {[issuer |-> "CN=CA2", serial |-> "01", key_type |-> "KEY_RSA",
           key |-> "K1", auth |-> ""],
          [issuer |-> "CN=CA1", serial |-> "02", key_type |-> "KEY_RSA",
           key |-> "K1", auth |-> ""]}

\* credential managers: up to MaxCandidates certificates, each with an
\* auth_cfg_t of its own
FnCredmgrs ==
    {[k \in 1..Len(q) |-> [q[k] EXCEPT !.auth = "auth" \o ToString(k)]] :
        q \in SeqsUpTo(FnCerts, MaxCandidates)}

CallVerifySignature ==
    /\ fn.op = "none"
    /\ \E si \in FnSigners, hash_oid \in {"OID_SHA256", "OID_UNKNOWN"},
          credmgr \in FnCredmgrs :
        fn' = [op |-> "verify_signature", si |-> si, hash_oid |-> hash_oid,
               credmgr |-> credmgr, res |-> verify_signature(si, hash_oid, credmgr)]
    /\ UNCHANGED <<loadArgs, this, alloc, enumerator, enumAlloc, auths, out, held,
                   data, trace, call, ub>>
    /\ UNCHANGED storeVars
    /\ UNCHANGED imvVars

CallVerifyDigest ==
    /\ fn.op = "none"
    /\ \E t \in {"OID_PKCS7_SIGNED_DATA", "OID_UNKNOWN"}, c \in Contents \cup {NULL},
          a \in FnDigestAttrs, hash_oid \in HashOIDs :
        LET cms == [type |-> t, content |-> c,
                    signerInfos |-> <<>>, hasSignerInfos |-> TRUE]
            si == SignerInfo("CN=CA1", "01", hash_oid, "OID_RSA_ENCRYPTION", a,
                             JunkSignature)
        IN  fn' = [op |-> "verify_digest", cms |-> cms, si |-> si,
                   hash_oid |-> hash_oid, res |-> verify_digest(cms, si, hash_oid)]
    /\ UNCHANGED <<loadArgs, this, alloc, enumerator, enumAlloc, auths, out, held,
                   data, trace, call, ub>>
    /\ UNCHANGED storeVars
    /\ UNCHANGED imvVars

\* the policies get_policy is applied to
FnPolicies ==
    {Policy("p", "alice@org", "bob@org", {"ts1"}, {"ts1"}),
     Policy("p", "alice@org", "*@org", {"ts1"}, {"ts1"}),
     Policy("p", "alice@org", "%any", {"ts1"}, {"ts1"}),
     Policy("p", "bob@org", "bob@org", {"ts1"}, {"ts1"}),
     Policy("p", "alice@org", "bob@org", {}, {"ts1"}),
     Policy("p", "alice@org", "bob@org", {"ts1"}, {"ts2"}),
     Policy("p", "alice@org", "alice@org", {"ts1"}, {"ts1"})}

FnQueries ==
    {[my_id |-> m, other_id |-> o, my_ts |-> {"ts1"}, other_ts |-> ts] :
        m \in {"alice@org", "%any"}, o \in {"bob@org", "carol@net"},
        ts \in {{"ts1"}, {"ts1", "ts2"}}}

\* get_policy on a store the policies of heap were added to, in that order
CallGetPolicy ==
    /\ fn.op = "none"
    /\ \E heap \in SeqsUpTo(FnPolicies, MaxPolicies), q \in FnQueries :
        fn' = [op |-> "get_policy", heap |-> heap, q |-> q,
               res |-> get_policy_locked(heap, [k \in 1..Len(heap) |-> k], q)]
    /\ UNCHANGED <<loadArgs, this, alloc, enumerator, enumAlloc, auths, out, held,
                   data, trace, call, ub>>
    /\ UNCHANGED storeVars
    /\ UNCHANGED imvVars

NextFn ==
    \/ CallVerifySignature
    \/ CallVerifyDigest
    \/ CallGetPolicy

SpecFn == Init /\ [][NextFn]_vars

(***************************************************************************)
(* The local policy store used by two threads.          A thread calls an   *)
(* operation and then runs its statements one at a time; the statements    *)
(* of different threads interleave freely.                                 *)
(***************************************************************************)
pkcs7Vars == <<loadArgs, this, alloc, enumerator, enumAlloc, auths, out, held,
               data, trace, call, ub, fn>>

\* thread t is in no operation
Idle(t) == thr[t].pc = 0

\* the statement thread t runs next
Instr(t) == IF Idle(t) THEN "none" ELSE Code(thr[t].op)[thr[t].pc]

\* thread t has not yet left the part of its operation that uses the store
InStore(t) ==
    /\ ~Idle(t)
    /\ \E k \in thr[t].pc..Len(Code(thr[t].op)) :
          Code(thr[t].op)[k] \in {"lock", "unlock", "create_iterator_locked"}

Running(t, instr) == fault = "none" /\ Instr(t) = instr

Advance(t) == [thr EXCEPT ![t].pc = @ + 1]

\* a thread calls an operation of the store; destroy() is called once no
\* other thread uses the store any more
Call(t) ==
    /\ fault = "none"
    /\ storeAlloc = "live"
    /\ Idle(t)
    /\ calls < MaxCalls
    /\ calls' = calls + 1
    /\ \A u \in Threads : thr[u].op # "destroy"
    /\ \/ /\ \E policy \in StorePolicies :
                /\ pol' = Append(pol, policy)
                /\ thr' = [thr EXCEPT ![t] = [IdleThread EXCEPT !.op = "add_policy",
                                !.pc = 1, !.policy = Len(pol) + 1]]
       \/ /\ \E q \in StoreQueries :
                thr' = [thr EXCEPT ![t] = [IdleThread EXCEPT !.op = "get_policy",
                                !.pc = 1, !.query = q]]
          /\ UNCHANGED pol
       \/ /\ \E name \in StoreNames :
                thr' = [thr EXCEPT ![t] = [IdleThread EXCEPT
                                !.op = "get_policy_by_name", !.pc = 1, !.name = name]]
          /\ UNCHANGED pol
       \/ /\ \E name \in StoreNames :
                thr' = [thr EXCEPT ![t] = [IdleThread EXCEPT
                                !.op = "delete_policy", !.pc = 1, !.name = name]]
          /\ UNCHANGED pol
       \/ /\ iterator # t
          /\ thr' = [thr EXCEPT ![t] = [IdleThread EXCEPT !.op = "create_iterator",
                                !.pc = 1]]
          /\ UNCHANGED pol
       \/ /\ iterator = 0
          /\ \A u \in Threads \ {t} : ~InStore(u)
          /\ thr' = [thr EXCEPT ![t] = [IdleThread EXCEPT !.op = "destroy", !.pc = 1]]
          /\ UNCHANGED pol
    /\ UNCHANGED <<policies, mutex, iterator, fault, storeAlloc>>
    /\ UNCHANGED pkcs7Vars
    /\ UNCHANGED imvVars

\* pthread_mutex_lock(&(this->mutex)): blocks while another thread holds it
Lock(t) ==
    /\ Running(t, "lock")
    /\ mutex = 0
    /\ mutex' = t
    /\ thr' = Advance(t)
    /\ UNCHANGED <<policies, pol, iterator, fault, storeAlloc, calls>>
    /\ UNCHANGED pkcs7Vars
    /\ UNCHANGED imvVars

\* pthread_mutex_unlock(&(this->mutex))
Unlock(t) ==
    /\ Running(t, "unlock")
    /\ mutex' = 0
    /\ thr' = Advance(t)
    /\ UNCHANGED <<policies, pol, iterator, fault, storeAlloc, calls>>
    /\ UNCHANGED pkcs7Vars
    /\ UNCHANGED imvVars

\* this->policies->insert_last(this->policies, policy)
InsertLast(t) ==
    /\ Running(t, "insert_last")
    /\ policies' = Append(policies, thr[t].policy)
    /\ thr' = Advance(t)
    /\ UNCHANGED <<pol, mutex, iterator, fault, storeAlloc, calls>>
    /\ UNCHANGED pkcs7Vars
    /\ UNCHANGED imvVars

\* get_policy from create_iterator to found->get_ref
GetPolicyLocked(t) ==
    /\ Running(t, "get_policy_locked")
    /\ LET r == get_policy_locked(pol, policies, thr[t].query) IN
        /\ pol' = r.heap
        /\ thr' = [thr EXCEPT ![t].pc = @ + 1, ![t].found = r.found]
    /\ UNCHANGED <<policies, mutex, iterator, fault, storeAlloc, calls>>
    /\ UNCHANGED pkcs7Vars
    /\ UNCHANGED imvVars

\* the loop of get_policy_by_name
IterateByName(t) ==
    /\ Running(t, "iterate_by_name")
    /\ thr' = [thr EXCEPT ![t].pc = @ + 1,
                 ![t].found = get_policy_by_name_iterate(pol, policies, 1,
                                                         thr[t].name, 0)]
    /\ UNCHANGED <<policies, pol, mutex, iterator, fault, storeAlloc, calls>>
    /\ UNCHANGED pkcs7Vars
    /\ UNCHANGED imvVars

\* the loop of delete_policy
IterateRemove(t) ==
    /\ Running(t, "iterate_remove")
    /\ LET r == delete_policy_iterate(pol, policies, 1, thr[t].name, FALSE) IN
        /\ pol' = r.heap
        /\ policies' = r.list
        /\ thr' = [thr EXCEPT ![t].pc = @ + 1, ![t].hit = r.found]
    /\ UNCHANGED <<mutex, iterator, fault, storeAlloc, calls>>
    /\ UNCHANGED pkcs7Vars
    /\ UNCHANGED imvVars

\* found->get_ref(found) of get_policy_by_name: through a NULL pointer when
\* nothing was found, on freed memory when the policy was destroyed since
GetRef(t) ==
    /\ Running(t, "get_ref")
    /\ IF thr[t].found = 0
       THEN fault' = "null_deref" /\ UNCHANGED pol
       ELSE IF pol[thr[t].found].refcount = 0
       THEN fault' = "use_after_free" /\ UNCHANGED pol
       ELSE fault' = fault /\ pol' = get_ref(pol, thr[t].found)
    /\ thr' = Advance(t)
    /\ UNCHANGED <<policies, mutex, iterator, storeAlloc, calls>>
    /\ UNCHANGED pkcs7Vars
    /\ UNCHANGED imvVars

\* the return statement of each operation
Return(t) ==
    /\ Running(t, "return")
    /\ thr' = [thr EXCEPT ![t] = [IdleThread EXCEPT !.ret =
                    CASE thr[t].op = "delete_policy" ->
                            IF thr[t].hit THEN "SUCCESS" ELSE "NOT_FOUND"
                      [] thr[t].op = "create_iterator" -> "iterator"
                      [] thr[t].op \in {"get_policy", "get_policy_by_name"} ->
                            IF thr[t].found = 0 THEN "NULL" ELSE "policy"
                      [] OTHER -> "void"]]
    /\ UNCHANGED <<policies, pol, mutex, iterator, fault, storeAlloc, calls>>
    /\ UNCHANGED pkcs7Vars
    /\ UNCHANGED imvVars

\* this->policies->create_iterator_locked(this->policies, &this->mutex):
\* locks the mutex for the life of the iterator
CreateIteratorLocked(t) ==
    /\ Running(t, "create_iterator_locked")
    /\ mutex = 0
    /\ mutex' = t
    /\ iterator' = t
    /\ thr' = Advance(t)
    /\ UNCHANGED <<policies, pol, fault, storeAlloc, calls>>
    /\ UNCHANGED pkcs7Vars
    /\ UNCHANGED imvVars

\* iterator->destroy(iterator) of the locked iterator: unlocks the mutex
IteratorDestroy(t) ==
    /\ fault = "none"
    /\ iterator = t
    /\ Idle(t)
    /\ mutex' = 0
    /\ iterator' = 0
    /\ UNCHANGED <<policies, pol, thr, fault, storeAlloc, calls>>
    /\ UNCHANGED pkcs7Vars
    /\ UNCHANGED imvVars

\* destroy_offset of destroy(): every stored policy destroyed, the list freed
DestroyOffset(t) ==
    /\ Running(t, "destroy_offset")
    /\ pol' = destroy_offset(pol, policies, 1)
    /\ policies' = <<>>
    /\ thr' = Advance(t)
    /\ UNCHANGED <<mutex, iterator, fault, storeAlloc, calls>>
    /\ UNCHANGED pkcs7Vars
    /\ UNCHANGED imvVars

\* free(this) of destroy()
Free(t) ==
    /\ Running(t, "free")
    /\ storeAlloc' = "freed"
    /\ thr' = [thr EXCEPT ![t] = [IdleThread EXCEPT !.op = "destroy", !.ret = "void"]]
    /\ UNCHANGED <<policies, pol, mutex, iterator, fault, calls>>
    /\ UNCHANGED pkcs7Vars
    /\ UNCHANGED imvVars

NextStore ==
    \/ \E t \in Threads : Call(t)
    \/ \E t \in Threads : Lock(t)
    \/ \E t \in Threads : Unlock(t)
    \/ \E t \in Threads : InsertLast(t)
    \/ \E t \in Threads : GetPolicyLocked(t)
    \/ \E t \in Threads : IterateByName(t)
    \/ \E t \in Threads : IterateRemove(t)
    \/ \E t \in Threads : GetRef(t)
    \/ \E t \in Threads : Return(t)
    \/ \E t \in Threads : CreateIteratorLocked(t)
    \/ \E t \in Threads : IteratorDestroy(t)
    \/ \E t \in Threads : DestroyOffset(t)
    \/ \E t \in Threads : Free(t)

SpecStore == Init /\ [][NextStore]_vars

(***************************************************************************)
(* The attestation state of one connection, driven by one caller.          *)
(***************************************************************************)
\* the ids a caller checks off: those outstanding, and two fixed ones
CheckIds == {requests[k].id : k \in 1..Len(requests)} \cup {1, 2}

\* add_request(file_id, is_dir)
AddRequest ==
    /\ tally.calls < MaxCalls
    /\ \E file_id \in FileIds, is_dir \in BOOLEAN :
        LET r == add_request(request_counter, requests, file_id, is_dir) IN
        /\ request_counter' = r.request_counter
        /\ requests' = r.requests
        /\ imvCall' = [op |-> "add_request", id |-> r.ret, ret |-> TRUE]
    /\ tally' = [tally EXCEPT !.added = @ + 1, !.calls = @ + 1]
    /\ UNCHANGED <<reqOut, reason>>
    /\ UNCHANGED <<pkcs7Vars, storeVars>>

\* check_off_request(id, &file_id, &is_dir)
CheckOffRequest ==
    /\ tally.calls < MaxCalls
    /\ \E id \in CheckIds :
        LET r == check_off_request(requests, id, reqOut) IN
        /\ requests' = r.requests
        /\ reqOut' = r.output
        /\ imvCall' = [op |-> "check_off_request", id |-> id, ret |-> r.ret]
        /\ tally' = [tally EXCEPT !.checked = IF r.ret THEN @ + 1 ELSE @,
                                  !.calls = @ + 1]
    /\ UNCHANGED <<request_counter, reason>>
    /\ UNCHANGED <<pkcs7Vars, storeVars>>

\* get_request_count(); the count is kept in the id field of the call
GetRequestCount ==
    /\ tally.calls < MaxCalls
    /\ imvCall.op # "get_request_count"
    /\ imvCall' = [op |-> "get_request_count", id |-> get_request_count(requests),
                   ret |-> TRUE]
    /\ tally' = [tally EXCEPT !.calls = @ + 1]
    /\ UNCHANGED <<request_counter, requests, reqOut, reason>>
    /\ UNCHANGED <<pkcs7Vars, storeVars>>

\* a long-lived connection: BurstRounds requests, each checked off at once,
\* after the first request of the connection at the latest
RoundTrips ==
    /\ tally.bursts = 0
    /\ tally.calls = tally.added
    /\ tally.added <= 1
    /\ LET r == round_trips([request_counter |-> request_counter,
                             requests |-> requests,
                             output |-> reqOut], BurstRounds) IN
        /\ request_counter' = r.request_counter
        /\ requests' = r.requests
        /\ reqOut' = r.output
    /\ imvCall' = [op |-> "round_trips", id |-> request_counter', ret |-> TRUE]
    /\ tally' = [tally EXCEPT !.added = @ + BurstRounds,
                              !.checked = @ + BurstRounds,
                              !.bursts = @ + 1]
    /\ UNCHANGED reason
    /\ UNCHANGED <<pkcs7Vars, storeVars>>

NextImv ==
    \/ AddRequest
    \/ CheckOffRequest
    \/ GetRequestCount
    \/ RoundTrips

SpecImv == Init /\ [][NextImv]_vars

(***************************************************************************)
(* get_reason_string() run one statement at a time: the function is        *)
(* called once and then runs on until it returns.                          *)
(***************************************************************************)
requestVars == <<request_counter, requests, reqOut, imvCall, tally>>

\* get_reason_string(preferred_language, &reason_string, &reason_language)
CallGetReasonString ==
    /\ reason.pc = "idle"
    /\ \E preferred_language \in PreferredLanguages :
        reason' = [ReasonIdle EXCEPT !.pc = "while",
                                     !.arg = preferred_language,
                                     !.preferred_language = preferred_language]
    /\ UNCHANGED requestVars
    /\ UNCHANGED <<pkcs7Vars, storeVars>>

\* line 141: while (eat_whitespace(&preferred_language))
ReasonWhile ==
    /\ reason.pc = "while"
    /\ LET r == eat_whitespace(reason.preferred_language) IN
        reason' = [reason EXCEPT !.preferred_language = r.src,
                                 !.pc = IF r.ret THEN "extract_token" ELSE "default"]
    /\ UNCHANGED requestVars
    /\ UNCHANGED <<pkcs7Vars, storeVars>>

\* lines 143-147: the next entry of the list, or the whole rest as the last
ReasonExtractToken ==
    /\ reason.pc = "extract_token"
    /\ LET r == extract_token(",", reason.preferred_language) IN
        reason' = [reason EXCEPT
                      !.pref_lang = IF r.ret THEN r.token ELSE r.src,
                      !.preferred_language = r.src,
                      !.pc = "eat_trailing_whitespace"]
    /\ UNCHANGED requestVars
    /\ UNCHANGED <<pkcs7Vars, storeVars>>

\* lines 149-154
ReasonEatTrailingWhitespace ==
    /\ reason.pc = "eat_trailing_whitespace"
    /\ reason' = [reason EXCEPT !.pref_lang = eat_trailing_whitespace(@),
                                !.pc = "for"]
    /\ UNCHANGED requestVars
    /\ UNCHANGED <<pkcs7Vars, storeVars>>

\* lines 156-166: return TRUE from inside the loop on a match, else go round
ReasonFor ==
    /\ reason.pc = "for"
    /\ LET i == reasons_lookup(reason.pref_lang, 1) IN
        reason' = IF i = 0
                  THEN [reason EXCEPT !.pc = "while"]
                  ELSE [reason EXCEPT !.output = reason_entry(i),
                                      !.ret = TRUE,
                                      !.pc = "return"]
    /\ UNCHANGED requestVars
    /\ UNCHANGED <<pkcs7Vars, storeVars>>

\* lines 169-174: no preferred language matched, use the default language
ReasonDefault ==
    /\ reason.pc = "default"
    /\ reason' = [reason EXCEPT !.output = reason_entry(1),
                                !.ret = TRUE,
                                !.pc = "return"]
    /\ UNCHANGED requestVars
    /\ UNCHANGED <<pkcs7Vars, storeVars>>

NextReason ==
    \/ CallGetReasonString
    \/ ReasonWhile
    \/ ReasonExtractToken
    \/ ReasonEatTrailingWhitespace
    \/ ReasonFor
    \/ ReasonDefault

\* a function that has been called keeps running
SpecReason == Init /\ [][NextReason]_vars /\ WF_vars(NextReason)

(***************************************************************************)
(* Properties.                                                             *)
(***************************************************************************)
\* The signers of the loaded container, and its content
Signers == this.cms.signerInfos

NumSigners == Len(Signers)

\* the auth_cfg_t objects enumerate() handed to the caller
Handed == {id \in 1..Len(auths) : id \in held \/ auths[id].crel > 0}

\* the last call was an enumerate() of the signature enumerator over the
\* live decoded structure
Enumerated ==
    /\ call.op = "enumerate"
    /\ enumerator.kind = "signature"
    /\ alloc.cms = "live"

\* some trusted RSA certificate the signer id names has the signer's issuer
\* and a public key that verifies the signature over the signed attributes
TrustedVerifies(si, credmgr) ==
    \E k \in 1..Len(credmgr) :
        /\ credmgr[k].key_type = "KEY_RSA"
        /\ credmgr[k].serial = si.serial
        /\ credmgr[k].issuer = si.issuer
        /\ credmgr[k].key # NULL
        /\ key_verify(credmgr[k].key,
                      signature_scheme_from_oid(si.digestAlgorithm),
                      ReencodeAttrs(si.signedAttrs), si.signature)

\* the signer declares, in a messageDigest attribute, the digest d
DeclaresDigest(si, d) ==
    \E k \in 1..Len(si.signedAttrs) :
        /\ si.signedAttrs[k].oid = "OID_PKCS9_MESSAGE_DIGEST"
        /\ si.signedAttrs[k].val = d

HasMessageDigest(si) ==
    \E k \in 1..Len(si.signedAttrs) :
        si.signedAttrs[k].oid = "OID_PKCS9_MESSAGE_DIGEST"

\* the octets of the content of a container: none when it embeds no content
Octets(content) == IF content = NULL THEN "" ELSE content

\* the hash of the content under the algorithm hash_oid names can be computed
Hashable(hash_oid, content) ==
    /\ hasher_algorithm_from_oid(hash_oid) \in AvailableHashers
    /\ allocate_hash(hasher_algorithm_from_oid(hash_oid), Octets(content)).ok

\* a signer that is individually valid for the content
ValidSigner(si, content) ==
    /\ si.signatureAlgorithm = "OID_RSA_ENCRYPTION"
    /\ TrustedVerifies(si, TrustStore)
    /\ Hashable(si.digestAlgorithm, content)
    /\ DeclaresDigest(si, HashValue(hasher_algorithm_from_oid(si.digestAlgorithm),
                                    Octets(content)))

ValidIndices == {k \in 0..(NumSigners - 1) : ValidSigner(Signers[k + 1], this.cms.content)}

YieldedIndices == {trace[p].signer : p \in {q \in 1..Len(trace) : trace[q].step = "yield"}}

DigestMismatch(si, content) ==
    /\ si.signatureAlgorithm = "OID_RSA_ENCRYPTION"
    /\ TrustedVerifies(si, TrustStore)
    /\ Hashable(si.digestAlgorithm, content)
    /\ HasMessageDigest(si)
    /\ ~DeclaresDigest(si, HashValue(hasher_algorithm_from_oid(si.digestAlgorithm),
                                     Octets(content)))

\* C2: a signer whose signature verifies against a trusted candidate but
\* whose messageDigest differs from the hash of the content is never
\* yielded: it is rejected at the digest step, after a successful
\* resolution (an auth_cfg_t was cloned for it and is never handed out),
\* with the diagnostic "invalid messageDigest", and the same call goes on
\* to the next signer.
C2_DigestMismatchRejectedAtBinding ==
    \A p \in 1..Len(trace) :
        DigestMismatch(trace[p].si, this.cms.content) =>
            /\ trace[p].step = "digest"
            /\ trace[p].diag = "invalid messageDigest"
            /\ trace[p].attempts # <<>>
            /\ \E id \in 1..Len(auths) : auths[id].signer = trace[p].signer
            /\ \A id \in Handed : auths[id].signer # trace[p].signer
            /\ (trace[p].signer + 1 < NumSigners) =>
                  /\ p < Len(trace)
                  /\ trace[p + 1].signer = trace[p].signer + 1

\* C2 witness: a signer rejected for its digest, and the signer after it yielded
C2_Witness ==
    \E p \in 1..Len(trace) :
        /\ DigestMismatch(trace[p].si, this.cms.content)
        /\ trace[p].diag = "invalid messageDigest"
        /\ p < Len(trace)
        /\ trace[p + 1].step = "yield"

\* the enumerator is alive and holds auth_cfg_t id as this->auth
EnumeratorHolds(id) == enumAlloc = "live" /\ enumerator.auth = id

\* C3 as stated: a result handed to the caller is never released by the
\* enumerator while the caller still holds it, and no result is released
\* twice, whatever the caller and the enumerator do.
C3_CallerOwnsYieldedResult ==
    /\ \A id \in held : auths[id].rel = 0
    /\ \A id \in 1..Len(auths) : auths[id].rel + auths[id].crel <= 1

\* C3 amended: a result yielded by enumerate() stays owned by the
\* enumerator.  It is valid exactly while it is the enumerator's this->auth:
\* the next enumerate() that examines a signer, or signature_destroy,
\* releases it, once.  Right after a yield *out is that object, unreleased.
\* No result is released twice unless the caller releases one, and a result
\* the caller released is released twice, or is still held by the
\* enumerator, which will release it again.
C3_YieldedResultBorrowed ==
    /\ \A id \in Handed :
          /\ auths[id].rel <= 1
          /\ (auths[id].rel = 0) <=> EnumeratorHolds(id)
          /\ (auths[id].crel > 0) =>
                (auths[id].rel > 0 /\ ub) \/ EnumeratorHolds(id)
    /\ (Enumerated /\ call.ret = TRUE) =>
          /\ out = enumerator.auth
          /\ out \in Handed
          /\ auths[out].rel = 0
    /\ (\A id \in 1..Len(auths) : auths[id].crel = 0) => ~DoubleFree(auths)

\* C3 witness: the caller still holds a result of an earlier enumerate()
\* that a later enumerate() has released, and has released nothing itself
C3_Witness ==
    /\ Enumerated /\ call.ret = TRUE
    /\ \E id \in held : id # out /\ auths[id].rel = 1
    /\ \A id \in 1..Len(auths) : auths[id].crel = 0

\* C4: the enumerator holds at most one auth_cfg_t, its this->auth; every
\* other object verify_signature created, yielded or discarded after a
\* digest failure, has been released by it exactly once, and after
\* signature_destroy all of them have, also when the caller stopped early.
C4_AtMostOneInFlight ==
    /\ Cardinality({id \in 1..Len(auths) : auths[id].rel = 0}) <= 1
    /\ \A id \in 1..Len(auths) :
          /\ auths[id].rel \in {0, 1}
          /\ (auths[id].rel = 0) => enumerator.auth = id
    /\ (enumAlloc = "freed") => \A id \in 1..Len(auths) : auths[id].rel = 1

\* C4 witness: the enumerator was destroyed before the end of the
\* sequence, after a result discarded for its digest and a yielded one
C4_Witness ==
    /\ enumAlloc = "freed"
    /\ enumerator.i < NumSigners
    /\ \E p \in 1..Len(trace) : trace[p].step = "digest"
    /\ \E p \in 1..Len(trace) : trace[p].step = "yield"
    /\ Len(auths) >= 2

\* the cursor of the enumerator stands at the end of the signer stack
AtEnd ==
    \/ enumerator.kind = "empty"
    \/ ~enumerator.hasSigners
    \/ enumerator.i >= Len(enumerator.signers)

\* the last call was an enumerate() that returned FALSE
EndSignalled == call.op = "enumerate" /\ ~ub /\ call.ret = FALSE

\* C5: once enumerate() has returned FALSE the enumerator is at its end
\* and stays there, and every enumerate() at the end returns FALSE, writes
\* no result, and leaves the cursor and everything else of the enumerator
\* as it was.
C5_ExhaustedIsIdempotent ==
    [][ /\ EndSignalled' => AtEnd'
        /\ (AtEnd /\ enumAlloc = "live" /\ enumAlloc' = "live") => AtEnd'
        /\ (AtEnd /\ call'.op = "enumerate" /\ Enumerate) =>
              /\ call'.ret = FALSE
              /\ enumerator' = enumerator
              /\ out' = out
              /\ held' = held
              /\ auths' = auths
              /\ trace' = trace ]_vars

\* C5 witness: a container with exactly one signer, valid, has yielded its
\* one result and enumerate() has returned FALSE
C5_Witness ==
    /\ EndSignalled
    /\ enumerator.kind = "signature"
    /\ NumSigners = 1
    /\ Len(trace) = 1
    /\ Cardinality(Handed) = 1

\* C6: signers are examined in container order, each once: the cursor is
\* the number of signers examined so far (0 at creation), the k-th
\* examined signer is SignerInfo[k-1], and the results handed out one
\* after the other belong to signers of strictly increasing index.
C6_ContainerOrder ==
    /\ enumerator.kind # "signature" => trace = <<>>
    /\ enumerator.kind = "signature" =>
          /\ enumerator.i = Len(trace)
          /\ \A p \in 1..Len(trace) :
                /\ trace[p].signer = p - 1
                /\ trace[p].si = Signers[p]
    /\ \A id1, id2 \in Handed :
          id1 < id2 => auths[id1].signer < auths[id2].signer

\* C6 witness: three different signers examined, two of them yielded
C6_Witness ==
    /\ Len(trace) = 3
    /\ Cardinality({Signers[k] : k \in 1..NumSigners}) = 3
    /\ Cardinality(Handed) = 2

\* the candidates of the direct verify_signature call, as the trusted
\* enumerator hands them over
FnCandidates == create_trusted_enumerator(fn.credmgr, "KEY_RSA", fn.si.serial)

\* candidate c has the signer's issuer and a public key that verifies the
\* signature over the re-encoded signed attributes
CandidateVerifies(c) ==
    /\ c.issuer = fn.si.issuer
    /\ c.key # NULL
    /\ key_verify(c.key, signature_scheme_from_oid(fn.hash_oid),
                  ReencodeAttrs(fn.si.signedAttrs), fn.si.signature)

VerifyingCandidates == {k \in 1..Len(FnCandidates) : CandidateVerifies(FnCandidates[k])}

FirstVerifying == CHOOSE k \in VerifyingCandidates : \A j \in VerifyingCandidates : k <= j

\* C7: verify_signature returns the auth of the first candidate, in the
\* order of the trusted enumerator, that has the signer's issuer and whose
\* key verifies the signature over the re-encoded attributes, and NULL
\* exactly when there is none; key->verify is called, in that order, for
\* the candidates with the signer's issuer and a public key up to that
\* first one and for no other: none with a different issuer, none after it.
C7_FirstVerifyingCandidate ==
    (fn.op = "verify_signature") =>
        LET res == fn.res
            tried == {res.attempts[j] : j \in 1..Len(res.attempts)}
            last == IF VerifyingCandidates = {} THEN Len(FnCandidates)
                    ELSE FirstVerifying
        IN  /\ (res.found = NULL) <=> (VerifyingCandidates = {})
            /\ VerifyingCandidates # {} =>
                  res.found = FnCandidates[FirstVerifying].auth
            /\ tried = {k \in 1..last : /\ FnCandidates[k].issuer = fn.si.issuer
                                        /\ FnCandidates[k].key # NULL}
            /\ \A j \in 1..(Len(res.attempts) - 1) :
                  res.attempts[j] < res.attempts[j + 1]

\* C7 witness: the first candidate has another issuer, the second
\* verifies, and a third would verify too
C7_Witness ==
    /\ fn.op = "verify_signature"
    /\ Len(FnCandidates) = 3
    /\ FnCandidates[1].issuer # fn.si.issuer
    /\ VerifyingCandidates = {2, 3}
    /\ fn.res.found = FnCandidates[2].auth
    /\ fn.res.attempts = <<2>>

\* C8: verify_digest returns TRUE exactly when the signer has a
\* messageDigest attribute, the container has content, the digest
\* algorithm has an available hasher and the hash it computes over the
\* content equals the declared digest; it logs "invalid messageDigest"
\* exactly when the hash was computed and differs, and the
\* unsupported-algorithm diagnostic exactly when attribute and content are
\* there and no hasher is.
C8_DigestBinder ==
    (fn.op = "verify_digest") =>
        LET alg == hasher_algorithm_from_oid(fn.hash_oid)
            content == fn.cms.content
            present == HasMessageDigest(fn.si) /\ content # NULL
            computed == allocate_hash(alg, content)
        IN  /\ fn.res.ok <=>
                  /\ present
                  /\ alg \in AvailableHashers
                  /\ computed.ok
                  /\ DeclaresDigest(fn.si, computed.hash)
            /\ (fn.res.diag = "invalid messageDigest") <=>
                  /\ present
                  /\ alg \in AvailableHashers
                  /\ computed.ok
                  /\ ~DeclaresDigest(fn.si, computed.hash)
            /\ (fn.res.diag = "hash algorithm not supported") <=>
                  (present /\ alg \notin AvailableHashers)

\* C8 witness: a digest of the right algorithm over another content
C8_Witness ==
    /\ fn.op = "verify_digest"
    /\ fn.res.diag = "invalid messageDigest"
    /\ fn.hash_oid = "OID_SHA256"
    /\ DeclaresDigest(fn.si, HashValue("HASH_SHA256", "c2"))
    /\ fn.cms.content = "c1"

\* the blob openssl_pkcs7_load was given: that of the last blob part
GivenBlob ==
    LET blobs == {k \in 1..Len(loadArgs) : loadArgs[k].part = "BUILD_BLOB_ASN1_DER"}
    IN  IF blobs = {} THEN EmptyBlob
        ELSE loadArgs[CHOOSE k \in blobs : \A j \in blobs : j <= k].blob

Undecodable(blob) == blob \in MalformedBlobs

SupportedOIDs == {"OID_PKCS7_DATA", "OID_PKCS7_SIGNED_DATA", "OID_PKCS7_ENVELOPED_DATA"}

\* the blob is empty, does not decode, or decodes to an unsupported type
Unloadable(blob) ==
    \/ blob = EmptyBlob
    \/ Undecodable(blob)
    \/ blob[2] \notin SupportedOIDs

\* C9: load of an empty blob, of a blob that does not decode or of one
\* with an outer type other than data, signed-data, enveloped-data returns
\* NULL and leaves no container (no method is ever called on one): the
\* object, if it was created, is freed, and so is the decoded structure,
\* if there was one.
C9_LoadFailureLeavesNothing ==
    (call.op # "none" /\ Unloadable(GivenBlob)) =>
        /\ call.op = "load"
        /\ call.ret = NULL
        /\ enumAlloc = "none"
        /\ alloc.this = IF GivenBlob = EmptyBlob THEN "none" ELSE "freed"
        /\ alloc.cms = IF GivenBlob = EmptyBlob \/ Undecodable(GivenBlob)
                       THEN "none" ELSE "freed"

\* C9 witness: a blob that decodes to an unsupported type was refused and
\* its decoded structure freed
C9_Witness ==
    /\ call.op = "load"
    /\ call.ret = NULL
    /\ ~Undecodable(GivenBlob)
    /\ GivenBlob # EmptyBlob
    /\ alloc = [this |-> "freed", cms |-> "freed"]

\* the container type of a supported outer content type
TypeTag(oid) ==
    CASE oid = "OID_PKCS7_DATA"           -> "CONTAINER_PKCS7_DATA"
      [] oid = "OID_PKCS7_SIGNED_DATA"    -> "CONTAINER_PKCS7_SIGNED_DATA"
      [] oid = "OID_PKCS7_ENVELOPED_DATA" -> "CONTAINER_PKCS7_ENVELOPED_DATA"

\* C10: load of a well-formed blob of a supported type T yields a
\* container, and as long as the container lives its type is T and
\* get_type returns T, whatever get_data, get_encoding,
\* create_signature_enumerator and enumerate calls came before.
C10_ContentTypeFixed ==
    /\ ( /\ call.op = "load"
         /\ \A k \in 1..Len(loadArgs) : loadArgs[k].part = "BUILD_BLOB_ASN1_DER"
         /\ ~Unloadable(GivenBlob) ) =>
            call.ret = "this" /\ alloc.this = "live"
    /\ (alloc.this = "live") =>
          /\ ~Unloadable(GivenBlob)
          /\ this.type = TypeTag(GivenBlob[2])
    /\ (call.op = "get_type") => call.ret = TypeTag(GivenBlob[2])

\* C10 witness: get_type of a signed-data container after get_data and
\* two enumerate calls
C10_Witness ==
    /\ call.op = "get_type"
    /\ call.ret = "CONTAINER_PKCS7_SIGNED_DATA"
    /\ data # <<"uninitialised">>
    /\ enumAlloc = "live"
    /\ Len(trace) >= 2
    /\ Cardinality(Handed) >= 2

\* the container is plain-data or signed-data and embeds a payload
PayloadPresent ==
    /\ this.type \in {"CONTAINER_PKCS7_DATA", "CONTAINER_PKCS7_SIGNED_DATA"}
    /\ this.cms.content # NULL

\* C11: get_data returns TRUE with a copy of the embedded payload exactly
\* when the container is plain-data or signed-data and a payload is
\* present; in every other case (enveloped-data, no payload) it returns
\* FALSE and leaves the caller's chunk as it was.
C11_GetDataExactlyWhenPayload ==
    [][ (call'.op = "get_data" /\ GetData) =>
            /\ call'.ret = PayloadPresent
            /\ PayloadPresent => data' = <<"clone", this.cms.content>>
            /\ ~PayloadPresent => data' = data ]_vars

\* C12: create_signature_enumerator on a container that is not signed-data
\* returns the empty enumerator: every enumerate() on it returns FALSE, and
\* nothing happens on its behalf: no signer is examined (no verify_signature,
\* trust store query or verify_digest), no auth_cfg_t is created or
\* released, and *out is never written.
C12_EmptyEnumeratorForOtherTypes ==
    (enumAlloc # "none" /\ this.type # "CONTAINER_PKCS7_SIGNED_DATA") =>
        /\ enumerator = EmptyEnumerator
        /\ (call.op = "enumerate") => call.ret = FALSE
        /\ trace = <<>>
        /\ auths = <<>>
        /\ out = 0
        /\ held = {}
        /\ ~ub

\* C12 witness: enumerate() on the enumerator of an enveloped-data
\* container that carries content
C12_Witness ==
    /\ this.type = "CONTAINER_PKCS7_ENVELOPED_DATA"
    /\ this.cms.content # NULL
    /\ enumAlloc = "live"
    /\ call.op = "enumerate"
    /\ call.ret = FALSE

\* the last call was an enumerate() of a signature enumerator that read the
\* signer stack of a decoded structure destroy() had already freed
ReadAfterDestroy ==
    /\ call.op = "enumerate"
    /\ enumerator.kind = "signature"
    /\ enumerator.hasSigners
    /\ alloc.cms = "freed"

\* C13: over any sequence of create_signature_enumerator, enumerate,
\* enumerator destroy and container destroy, no enumerate() reads a signer
\* or the content of a decoded structure that the container's destroy() has
\* already released.
C13_NoReadAfterContainerDestroy == ~ReadAfterDestroy

\* C14: a signer whose signature algorithm is not RSA encryption is skipped
\* with the diagnostic "only RSA digest encryption supported" (and only such
\* a signer gets it): verify_signature, the trust store and verify_digest
\* are not called for it, no auth_cfg_t is created or handed out for it,
\* and the same enumerate() call goes on to the next signer.
C14_NonRSASkipped ==
    \A p \in 1..Len(trace) :
        /\ (trace[p].si.signatureAlgorithm # "OID_RSA_ENCRYPTION") <=>
              (trace[p].diag = "only RSA digest encryption supported")
        /\ (trace[p].si.signatureAlgorithm # "OID_RSA_ENCRYPTION") =>
              /\ trace[p].step = "algorithm"
              /\ ~trace[p].queried
              /\ trace[p].attempts = <<>>
              /\ ~trace[p].bound
              /\ \A id \in 1..Len(auths) : auths[id].signer # trace[p].signer
              /\ (trace[p].signer + 1 < NumSigners) =>
                    /\ p < Len(trace)
                    /\ trace[p + 1].signer = trace[p].signer + 1

\* C14 witness: a signer that is not RSA, signed by a trusted key over the
\* right digest, was skipped and the signer after it yielded
C14_Witness ==
    \E p \in 1..Len(trace) :
        /\ trace[p].si.signatureAlgorithm = "OID_EC_PUBLICKEY"
        /\ TrustedVerifies(trace[p].si, TrustStore)
        /\ trace[p].step = "algorithm"
        /\ p < Len(trace)
        /\ trace[p + 1].step = "yield"

\* C15: the cursor of the signature enumerator never decreases, grows by
\* exactly one per signer examined and never exceeds the number of signers;
\* an enumerate() that returns TRUE has moved it forward, and one that
\* returns FALSE leaves it at the end.  So at most N calls return TRUE and
\* the call after them, the (N+1)-th at the latest, returns FALSE.
C15_CursorReachesEnd ==
    [][ /\ enumerator'.i <= Len(enumerator'.signers)
        /\ (enumAlloc = "live") => enumerator'.i >= enumerator.i
        /\ (call'.op = "enumerate" /\ Enumerate) =>
              /\ enumerator'.i - enumerator.i = Len(trace') - Len(trace)
              /\ (call'.ret = TRUE) => enumerator'.i > enumerator.i
              /\ (call'.ret = FALSE) => enumerator'.i = Len(enumerator'.signers)
              /\ Cardinality({p \in 1..Len(trace') : trace'[p].step = "yield"})
                    <= NumSigners ]_vars

\* C15 witness: three signers, all valid: three calls returned TRUE and the
\* fourth returned FALSE with the cursor at 3
C15_Witness ==
    /\ EndSignalled
    /\ enumerator.kind = "signature"
    /\ NumSigners = 3
    /\ enumerator.i = 3
    /\ Cardinality(Handed) = 3

\* the stored policy at position k meets the three conditions of the query
Eligible(heap, k, q) ==
    /\ matches(heap[k].my_id, q.my_id).ok
    /\ matches(q.other_id, heap[k].other_id).ok
    /\ heap[k].my_ts \cap q.my_ts # {}
    /\ heap[k].other_ts \cap q.other_ts # {}

\* its priority: PRIO_ID_MATCH minus the wildcards of the other_id match
Priority(heap, k, q) == PRIO_ID_MATCH - matches(q.other_id, heap[k].other_id).wildcards

EligiblePolicies == {k \in 1..Len(fn.heap) : Eligible(fn.heap, k, fn.q)}

\* the earliest added among the eligible policies of highest priority
BestPolicy ==
    CHOOSE k \in EligiblePolicies : \A j \in EligiblePolicies :
        \/ Priority(fn.heap, k, fn.q) > Priority(fn.heap, j, fn.q)
        \/ Priority(fn.heap, k, fn.q) = Priority(fn.heap, j, fn.q) /\ k <= j

\* C17: get_policy returns, with one new reference, the policy of highest
\* priority among the stored policies whose my_id matches, whose other_id
\* is matched by the given other_id and whose traffic selectors select one
\* of my_ts and one of other_ts, the earliest added among equals; it
\* returns NULL and takes no reference when no policy meets the three
\* conditions, and never a policy whose other_id does not match.
C17_ClosestMatchingPolicy ==
    (fn.op = "get_policy") =>
        /\ (fn.res.found = 0) <=> (EligiblePolicies = {})
        /\ (EligiblePolicies = {}) => fn.res.heap = fn.heap
        /\ (EligiblePolicies # {}) =>
              /\ fn.res.found = BestPolicy
              /\ matches(fn.q.other_id, fn.heap[fn.res.found].other_id).ok
              /\ fn.res.heap = [fn.heap EXCEPT ![BestPolicy].refcount = @ + 1]

\* C17 witness: the store holds a policy for any other_id, then one with a
\* wildcard and two for exactly that other_id: the third one is returned
C17_Witness ==
    /\ fn.op = "get_policy"
    /\ Len(fn.heap) = 3
    /\ fn.heap[1].other_id = "%any"
    /\ fn.heap[2].other_id = "*@org"
    /\ fn.heap[3].other_id = "bob@org"
    /\ EligiblePolicies = {1, 2, 3}
    /\ fn.res.found = 3
    /\ fn.res.heap[3].refcount = 2

\* thread t takes a step that runs the statement instr
Runs(t, instr) == Instr(t) = instr /\ thr'[t] # thr[t]

\* C16: under every interleaving of get_policy_by_name with delete_policy
\* or destroy in another thread, the policy get_policy_by_name found under
\* the mutex is still alive when its reference is taken: no other thread
\* destroys it between the search and get_ref.
C16_ReferenceTakenOnLivePolicy ==
    /\ fault # "use_after_free"
    /\ \A t \in Threads :
          (thr[t].op = "get_policy_by_name" /\ ~Idle(t) /\ thr[t].found # 0) =>
              pol[thr[t].found].refcount > 0

\* the stored policy added last among those called name, 0 when there is none
LastNamed(name) ==
    LET at == {k \in 1..Len(policies) : pol[policies[k]].name = name}
    IN  IF at = {} THEN 0 ELSE policies[CHOOSE k \in at : \A j \in at : j <= k]

\* C18: get_policy_by_name(name) finds the last-added stored policy called
\* name and takes one reference on it; when no stored policy has that
\* name it returns NULL, takes no reference and accesses nothing through
\* the NULL pointer.
C18_ByNameLastAddedOrNull ==
    [][ \A t \in Threads :
          /\ Runs(t, "iterate_by_name") => thr'[t].found = LastNamed(thr[t].name)
          /\ Runs(t, "get_ref") =>
                /\ fault' = "none"
                /\ pol' = IF thr[t].found = 0 THEN pol
                          ELSE [pol EXCEPT ![thr[t].found].refcount = @ + 1]
          /\ (Runs(t, "return") /\ thr[t].op = "get_policy_by_name") =>
                thr'[t].ret = IF thr[t].found = 0 THEN "NULL" ELSE "policy" ]_vars

\* the positions of the stored policies called name
NamedAt(name) == {k \in 1..Len(policies) : pol[policies[k]].name = name}

\* C19: delete_policy(name) takes every stored policy called name out of
\* the list, not only the first, and destroys each of them once; the other
\* policies stay, in their order, untouched; it returns SUCCESS exactly
\* when it removed one, NOT_FOUND otherwise with the store as it was.
C19_DeleteEveryNamed ==
    [][ \A t \in Threads :
          /\ Runs(t, "iterate_remove") =>
                LET name == thr[t].name
                    gone == {policies[k] : k \in NamedAt(name)}
                IN  /\ policies' = SelectSeq(policies, LAMBDA id : pol[id].name # name)
                    /\ Len(policies') = Len(policies) - Cardinality(NamedAt(name))
                    /\ pol' = [id \in 1..Len(pol) |->
                                 IF id \in gone
                                 THEN [pol[id] EXCEPT !.refcount = @ - 1]
                                 ELSE pol[id]]
                    /\ thr'[t].hit = (gone # {})
          /\ (Runs(t, "return") /\ thr[t].op = "delete_policy") =>
                thr'[t].ret = IF thr[t].hit THEN "SUCCESS" ELSE "NOT_FOUND"
          /\ (thr[t].op = "delete_policy" /\ ~Idle(t) /\ ~Idle(t)') =>
                (thr'[t].hit = thr[t].hit) \/ Runs(t, "iterate_remove") ]_vars

\* C19 witness: of three stored policies the first and the third were
\* called a; delete_policy("a") destroyed both and left the second
C19_Witness ==
    \E t \in Threads :
        /\ thr[t].op = "delete_policy"
        /\ thr[t].name = "a"
        /\ Instr(t) = "unlock"
        /\ thr[t].hit
        /\ Len(pol) = 3
        /\ pol[1].name = "a" /\ pol[2].name = "b" /\ pol[3].name = "a"
        /\ pol[1].refcount = 0 /\ pol[3].refcount = 0 /\ pol[2].refcount = 1
        /\ policies = <<2>>

\* the statements that read or change the list of policies
ListStatements ==
    {"insert_last", "get_policy_locked", "iterate_by_name", "iterate_remove",
     "destroy_offset"}

\* thread t is at a statement that uses the list, or holds the iterator
UsesList(t) == Instr(t) \in ListStatements \/ iterator = t

\* C20: the list is never used by two threads at once: a thread at a
\* statement of add_policy, get_policy, get_policy_by_name, delete_policy
\* (or destroy) that uses the list holds the mutex, the holder of the
\* iterator of create_iterator holds it until the iterator is destroyed, so
\* every other thread waits at its lock; and a thread that is past its
\* unlock or has returned does not hold the mutex any more.
C20_MutexGuardsList ==
    /\ \A t \in Threads : UsesList(t) => mutex = t
    /\ \A t, u \in Threads : (t # u /\ UsesList(t)) => ~UsesList(u)
    /\ \A t \in Threads :
          (iterator # t /\ Instr(t) \in {"none", "lock", "get_ref", "return", "free",
                                         "create_iterator_locked"}) => mutex # t

\* C20 witness: one thread holds the iterator over a store with a policy,
\* the other has called add_policy and waits at its lock
C20_Witness ==
    \E t, u \in Threads :
        /\ iterator = t
        /\ Idle(t)
        /\ policies # <<>>
        /\ thr[u].op = "add_policy"
        /\ Instr(u) = "lock"


\* C21: after any sequence of add_request and check_off_request calls the
\* outstanding requests have pairwise distinct ids.
C21_OutstandingIdsDistinct ==
    \A i, j \in 1..Len(requests) :
        i # j => requests[i].id # requests[j].id

\* the positions of the outstanding requests with the id
Outstanding(id) == {k \in 1..Len(requests) : requests[k].id = id}

\* the earliest added of the outstanding requests with the id
Earliest(id) == CHOOSE k \in Outstanding(id) : \A j \in Outstanding(id) : k <= j

\* the list with the request at position k taken out, the others as they were
Without(list, k) ==
    [i \in 1..(Len(list) - 1) |-> IF i < k THEN list[i] ELSE list[i + 1]]

\* C22: check_off_request(id) returns TRUE exactly when a request with the id
\* is outstanding; it then reports the file_id and is_dir of the earliest
\* added request with the id and removes that one request only; otherwise it
\* returns FALSE and leaves the list and the outputs as they were; and the
\* request count is always the number of requests added minus the number of
\* calls of check_off_request that returned TRUE.
C22_CheckOffExactlyOne ==
    [][/\ imvCall'.op = "check_off_request" =>
            /\ imvCall'.ret = (Outstanding(imvCall'.id) # {})
            /\ imvCall'.ret =>
                    LET k == Earliest(imvCall'.id) IN
                    /\ reqOut' = [file_id |-> requests[k].file_id,
                                  is_dir |-> requests[k].is_dir]
                    /\ requests' = Without(requests, k)
            /\ ~imvCall'.ret =>
                    /\ requests' = requests
                    /\ reqOut' = reqOut
       /\ get_request_count(requests') = tally'.added - tally'.checked
       /\ imvCall'.op = "get_request_count" =>
            imvCall'.id = tally.added - tally.checked]_vars

\* check_off_request returned TRUE for an id that two outstanding requests
\* had: the later one is still in the list
C22_Witness ==
    /\ imvCall.op = "check_off_request"
    /\ imvCall.ret
    /\ \E k \in 1..Len(requests) : requests[k].id = imvCall.id
    /\ tally.added - tally.checked = Len(requests)

\* the first comma of a list
FirstComma(list) ==
    CHOOSE k \in 1..Len(list) :
        list[k] = "," /\ \A j \in 1..(k - 1) : list[j] # ","

RECURSIVE Entries(_)
\* the entries of a comma-separated list, in order
Entries(list) ==
    IF \A k \in 1..Len(list) : list[k] # ","
    THEN <<list>>
    ELSE <<SubSeq(list, 1, FirstComma(list) - 1)>>
         \o Entries(SubSeq(list, FirstComma(list) + 1, Len(list)))

\* an entry without the spaces around it
Stripped(entry) == SelectSeq(entry, LAMBDA c : c # " ")

\* the entries of the list that are a language of the reasons table
Matching(list) ==
    {k \in 1..Len(Entries(list)) :
        \E i \in 1..Len(reasons) : reasons[i].lang = Stripped(Entries(list)[k])}

\* what the list selects: the table entry of its first matching entry, the
\* English one when none matches
Selected(list) ==
    IF Matching(list) = {}
    THEN reason_entry(1)
    ELSE LET k == CHOOSE m \in Matching(list) : \A j \in Matching(list) : m <= j
             i == CHOOSE n \in 1..Len(reasons) :
                      reasons[n].lang = Stripped(Entries(list)[k]) IN
         reason_entry(i)

\* C23: get_reason_string always returns TRUE, with the reason string and
\* language of the first entry of the preferred-language list that is a
\* language of the reasons table, and with the English entry when no entry
\* matches or the list is empty.
C23_ReasonStringReturned ==
    (reason.pc # "idle") ~>
        (/\ reason.pc = "return"
         /\ reason.ret
         /\ reason.output = Selected(reason.arg))

====
